---- MODULE Spec2Model ----
(***************************************************************************)
(* bsdec2-image-upload (src/main.c): upload of a disk image to S3 in       *)
(* parts, import as an EBS volume, snapshot, AMI registration, fan-out to  *)
(* the other regions and the SNS notification.                             *)
(*                                                                         *)
(* Byte strings are sequences of tokens (each token a TLA+ string): the    *)
(* C string functions strstr, strcspn and strlen are modelled on them, and *)
(* the XML extraction and the HTTP response checks are computed on the     *)
(* response the transport hands back.                                      *)
(***************************************************************************)
EXTENDS Integers, Sequences, FiniteSets, TLC

(* ------------------------------------------------------------------ *)
(* Bounds of the model.                                               *)
(* ------------------------------------------------------------------ *)
\* The disk image holds at most MaxParts full parts (plus one byte).
MaxParts == 2
\* A polling stage sees at most MaxPolls non-terminal answers.
MaxPolls == 2
\* The strings given to encodeamp have at most MaxLen bytes.
MaxLen == 4
\* A response buffer examined on its own holds at most MaxWire tokens.
MaxWire == 5
\* DescribeRegions lists at most MaxRegions regions.
MaxRegions == 3
\* The key file holds at most MaxLines lines.
MaxLines == 3

(* ------------------------------------------------------------------ *)
(* Program constants.                                                 *)
(* ------------------------------------------------------------------ *)
PARTSZ == 10485760

\* argv[4] of the runs considered.
HomeRegion == "us-east-1"

\* The NULL pointer, as a value no byte string of the model equals.
NULL == <<"NULL">>

(* ------------------------------------------------------------------ *)
(* C string functions on token sequences.                             *)
(* ------------------------------------------------------------------ *)
Min(a, b) == IF a < b THEN a ELSE b

\* The C string held in a buffer: the bytes before the first NUL.
CStr(bytes) ==
  LET nuls == {k \in 1..Len(bytes) : bytes[k] = "NUL"}
  IN  IF nuls = {} THEN bytes
      ELSE SubSeq(bytes, 1, (CHOOSE k \in nuls : \A m \in nuls : k <= m) - 1)

\* strstr(s, pat): index of the first occurrence of pat in s, 0 if none.
StrStr(s, pat) ==
  LET hits == {k \in 1..(Len(s) - Len(pat) + 1) :
                 SubSeq(s, k, k + Len(pat) - 1) = pat}
  IN  IF hits = {} THEN 0 ELSE CHOOSE k \in hits : \A m \in hits : k <= m

\* strcspn(s, "\r\n"): index of the first end-of-line token, Len(s)+1 if none.
StrCSpnEOL(s) ==
  LET eols == {k \in 1..Len(s) : s[k] = "CRLF"}
  IN  IF eols = {} THEN Len(s) + 1 ELSE CHOOSE k \in eols : \A m \in eols : k <= m

(* ------------------------------------------------------------------ *)
(* readkeys.                                                          *)
(* ------------------------------------------------------------------ *)
\* strcspn(buf, "\r\n"): index of the first CR or LF, Len(buf)+1 if none.
StrCSpnCRLF(buf) ==
  LET eols == {k \in 1..Len(buf) : buf[k] \in {"CR", "LF"}}
  IN  IF eols = {} THEN Len(buf) + 1 ELSE CHOOSE k \in eols : \A m \in eols : k <= m

\* strchr(line, '='): index of the first '=', 0 if none.
StrChrEq(line) ==
  LET eqs == {k \in 1..Len(line) : line[k] = "="}
  IN  IF eqs = {} THEN 0 ELSE CHOOSE k \in eqs : \A m \in eqs : k <= m

\* The lines fgets() hands to readkeys, one after the other, starting at
\* line k of the file, with the keys found so far; rc is readkeys' return
\* value.  A line without end-of-line ends the reading (break).
RECURSIVE readkeys_loop(_, _, _, _)
readkeys_loop(file, k, id, secret) ==
  IF k > Len(file) \/ StrCSpnCRLF(file[k]) > Len(file[k])
  THEN IF id = NULL \/ secret = NULL
       THEN [rc |-> -1, key_id |-> id, key_secret |-> secret]
       ELSE [rc |-> 0, key_id |-> id, key_secret |-> secret]
  ELSE LET line == SubSeq(file[k], 1, StrCSpnCRLF(file[k]) - 1)
           p    == StrChrEq(line)
           name == SubSeq(line, 1, p - 1)
           val  == SubSeq(line, p + 1, Len(line))
           fail == [rc |-> -1, key_id |-> id, key_secret |-> secret]
       IN  IF p = 0 THEN fail
           ELSE IF name = <<"ACCESS_KEY_ID">>
                THEN IF id # NULL THEN fail
                     ELSE readkeys_loop(file, k + 1, val, secret)
           ELSE IF name = <<"ACCESS_KEY_SECRET">>
                THEN IF secret # NULL THEN fail
                     ELSE readkeys_loop(file, k + 1, id, val)
           ELSE fail

readkeys(file) == readkeys_loop(file, 1, NULL, NULL)

(* ------------------------------------------------------------------ *)
(* ResponseExtractor.                                                 *)
(* ------------------------------------------------------------------ *)
RECURSIVE xmlextracts(_, _)
xmlextracts(s, tagname) ==
  LET tag  == <<"<" \o tagname \o ">">>
      stag == <<"</" \o tagname \o ">">>
      pst  == StrStr(s, tag)
  IN  IF pst = 0 THEN [err |-> FALSE, vals |-> <<>>]
      ELSE LET rest == SubSeq(s, pst + 1, Len(s))
               pend == StrStr(rest, stag)
           IN  IF pend = 0 THEN [err |-> TRUE, vals |-> <<>>]
               ELSE LET more == xmlextracts(SubSeq(rest, pend + 1, Len(rest)), tagname)
                    IN  IF more.err THEN more
                        ELSE [err  |-> FALSE,
                              vals |-> <<SubSeq(rest, 1, pend - 1)>> \o more.vals]

xmlextract(s, tagname) ==
  LET r == xmlextracts(s, tagname)
  IN  IF r.err \/ Len(r.vals) = 0 THEN NULL ELSE r.vals[1]

(* ------------------------------------------------------------------ *)
(* TransportClient: what sslreq hands back, and the checks on it.     *)
(* A wire response is [err, bytes]: err is sslreq's error string      *)
(* being non-NULL, bytes the response buffer.                         *)
(* ------------------------------------------------------------------ *)
HdrOK == <<"HTTP/1.1", " 200 ", "OK", "CRLF", "Connection: close", "CRLF", "CRLF">>

WireOK(body) == [err |-> FALSE, bytes |-> HdrOK \o body]

\* Responses every variant of the client rejects, one per cause.
BadWires ==
  { [err |-> TRUE,  bytes |-> <<>>],
    [err |-> FALSE, bytes |-> <<"HTTP/1.1", " 403 ", "Forbidden", "CRLF", "CRLF", "<Error>">>],
    [err |-> FALSE, bytes |-> <<"HTTP/1.1", " 500 ", "CRLF", "X-Id:", " 200 ", "CRLF", "CRLF", "<Error>">>] }

\* Responses only the API variant rejects (s3_put does not look for these).
BadApiWires ==
  { [err |-> FALSE, bytes |-> HdrOK \o <<"<a>", "NUL", "</a>">>],
    [err |-> FALSE, bytes |-> <<"HTTP/1.1", " 200 ", "OK", "CRLF", "<a>">>] }

\* Why a response is rejected ("none" when it is not).
Cause(w) ==
  LET r == CStr(w.bytes)
      p == StrStr(r, <<" 200 ">>)
  IN  IF w.err THEN "transport"
      ELSE IF Len(r) # Len(w.bytes) THEN "nul"
      ELSE IF p = 0 \/ p > StrCSpnEOL(r) THEN "status"
      ELSE IF StrStr(r, <<"CRLF", "CRLF">>) = 0 THEN "malformed"
      ELSE "none"

\* s3_put: 0 on a 200 status on the first line, -1 otherwise.
s3_put(w) ==
  LET resp == CStr(w.bytes)
      pos  == StrCSpnEOL(resp)
      p200 == StrStr(resp, <<" 200 ">>)
  IN  IF w.err THEN -1
      ELSE IF p200 = 0 \/ p200 > pos THEN -1
      ELSE 0

\* ec2_apicall without the check for NUL bytes.
ec2_apicall_nonul(w) ==
  LET resp == CStr(w.bytes)
      pos  == StrCSpnEOL(resp)
      p200 == StrStr(resp, <<" 200 ">>)
      sep  == StrStr(resp, <<"CRLF", "CRLF">>)
  IN  IF w.err THEN NULL
      ELSE IF p200 = 0 \/ p200 > pos THEN NULL
      ELSE IF sep = 0 THEN NULL
      ELSE SubSeq(resp, sep + 2, Len(resp))

\* ec2_apicall: the response body, or NULL.
ec2_apicall(w) ==
  LET resp == CStr(w.bytes)
      pos  == StrCSpnEOL(resp)
      p200 == StrStr(resp, <<" 200 ">>)
      sep  == StrStr(resp, <<"CRLF", "CRLF">>)
  IN  IF w.err THEN NULL
      ELSE IF Len(resp) # Len(w.bytes) THEN NULL
      ELSE IF p200 = 0 \/ p200 > pos THEN NULL
      ELSE IF sep = 0 THEN NULL
      ELSE SubSeq(resp, sep + 2, Len(resp))

\* One iteration (index i0) of the loop of s3_put_loop, the call having
\* returned rc: "return" (success), "again" (next iteration) or "giveup".
s3_put_loop_ignore(i0, rc) ==
  IF rc = 0 \/ i0 + 1 = 10 THEN "return" ELSE "again"

s3_put_loop(i0, rc) ==
  IF rc = 0 THEN "return" ELSE IF i0 + 1 < 10 THEN "again" ELSE "giveup"

\* One iteration (index i0) of the loop of ec2_apicall_loop.
ec2_apicall_loop_bad(i0, body) ==
  IF body # NULL /\ i0 > 0 THEN "return"
  ELSE IF i0 + 1 < 10 THEN "again" ELSE "giveup"

ec2_apicall_loop(i0, body) ==
  IF body # NULL THEN "return" ELSE IF i0 + 1 < 10 THEN "again" ELSE "giveup"

\* A call made without the retry wrapper: one attempt.
single_attempt(i0, body) ==
  IF body # NULL THEN "return" ELSE "giveup"

(* ------------------------------------------------------------------ *)
(* State.                                                             *)
(* ------------------------------------------------------------------ *)
VARIABLES
  pc,          \* position of main
  i,           \* loop index of the retry wrapper in progress
  exitcode,    \* exit status of the process, -1 while it runs
  failed,      \* a stage has reported a fatal error
  argc,        \* argument count left after the leading flags
  public,      \* --public
  publicsnap,  \* --publicsnap
  keyfile,     \* the lines of the key file
  topicarn,    \* argv[7], byte by byte, or NULL without the topic arguments
  amp,         \* encodeamp: its argument s and the string t it returns
  wire,        \* ec2_apicall on its own: what sslreq hands back
  key_id, key_secret,   \* the keys readkeys() returned, or NULL
  fopenOK,     \* the disk image can be opened
  fsize,       \* sb.st_size of the disk image
  pos,         \* uploadvolume: offset of the current part
  buflen,      \* uploadvolume: length of the current part
  partcount,   \* manifest: <parts count="...">
  parts,       \* manifest: the <part> blocks appended so far
  manifest,    \* path returned by uploadvolume, or NULL
  res,         \* uploadvolume: what it holds of the file, the buffer and its strings
  regions,     \* region list returned by getregionlist
  taskid, volume, snapshot, ami,   \* IDs held by main
  amis,        \* amis[k]: image of regions[k]
  ridx,        \* loop index over regions in main
  laststatus,  \* waitforimport: the status last printed
  errout,      \* waitforimport: what each call of printstatus wrote to stderr
  req,         \* the request this step sent (NoReq if it sent none)
  resp,        \* body of the response this step accepted, or NULL
  stagesDone,  \* stages that have returned success
  sent,        \* per Action: 0 not sent, 1 sent, 2 sent more than once (told
               \* apart from 1 for the calls made without the retry wrapper)
  poll,        \* the polling stage in progress or last run
  loop,        \* the last attempt of a remote call and how its wrapper went on
  out,         \* lines written to standard output
  copies,      \* the regions CopyImage requests went to, in the order sent
  warned,      \* main has reported "Failed to send SNS notification"
  sig,         \* the signing result of the last request: how many sends used it
  spent        \* a wrapped call that is over had an attempt that failed

inputs == <<argc, public, publicsnap, keyfile, topicarn, fopenOK, fsize>>
keys   == <<key_id, key_secret>>
upvars == <<pos, buflen, partcount, parts, manifest, res>>
ids    == <<regions, taskid, volume, snapshot, ami, amis, ridx, laststatus, errout>>
pure   == <<amp, wire>>
vars   == <<pc, i, exitcode, failed, inputs, upvars, ids,
            req, resp, stagesDone, sent, poll, loop, out, copies, warned, keys, sig,
            pure, spent>>

Actions ==
  {"DescribeRegions", "PUT", "ImportVolume", "DescribeConversionTasks",
   "CreateSnapshot", "DescribeSnapshots", "DeleteVolume",
   "ModifySnapshotAttribute", "RegisterImage", "DescribeImages",
   "CopyImage", "ModifyImageAttribute", "Publish"}

NoReq  == [action |-> "none", region |-> "none", arg |-> <<>>]
NoPoll == [key |-> "none", queries |-> 0, nonterm |-> 0, sleeps |-> 0,
           dots |-> 0, lines |-> 0, state |-> "none"]
NoLoop == [wrapper |-> "none", ok |-> FALSE, cause |-> "none", result |-> "none"]
NoAmp  == [s |-> <<"NULL">>, t |-> <<"NULL">>]
NoWire == [err |-> TRUE, bytes |-> <<>>]
NoRes  == [f |-> "none", buf |-> "none", manifest |-> "none", path |-> "none",
           s |-> "none", query |-> "none", lost |-> 0, twice |-> 0, ret |-> "no"]

\* Disk image lengths considered: empty, less than a part, a part and a
\* byte, a whole number of parts.
Lengths == {0, PARTSZ - 1, PARTSZ + 1, MaxParts * PARTSZ}

\* Region names, in the order DescribeRegions lists them.
AllRegions == <<"eu-west-1", "us-east-1", "ap-south-1", "sa-east-1", "us-west-2">>

\* Lines of a key file, as fgets() returns them.
KeyLines ==
  { <<"ACCESS_KEY_ID", "=", "AKID", "LF">>,
    <<"ACCESS_KEY_SECRET", "=", "s3cr3t", "LF">>,
    <<"ACCESS_KEY_SECRET", "=", "s3cr3t", "CR", "LF">>,
    <<"ACCESS_KEY_ID", "=", "AK", "=", "ID", "LF">>,
    <<"SECRET_KEY", "=", "s3cr3t", "LF">>,
    <<"ACCESS_KEY_ID", "LF">>,
    <<"LF">>,
    <<"ACCESS_KEY_SECRET", "=", "s3cr3t">>,
    <<"comment">> }

\* Key files of at most MaxLines lines; only the last line of a file can
\* lack its end-of-line.
KeyFiles ==
  { f \in UNION {[1..n -> KeyLines] : n \in 0..MaxLines} :
      \A k \in 1..(Len(f) - 1) : f[k][Len(f[k])] = "LF" }

\* The key files of the runs of main considered: one with both keys, one
\* without the secret, one naming the key ID twice.
MainKeyFiles ==
  { <<<<"ACCESS_KEY_ID", "=", "AKID", "LF">>, <<"ACCESS_KEY_SECRET", "=", "s3cr3t", "LF">>>>,
    <<<<"ACCESS_KEY_ID", "=", "AKID", "LF">>>>,
    <<<<"ACCESS_KEY_ID", "=", "AKID", "LF">>, <<"ACCESS_KEY_ID", "=", "AKID", "LF">>,
      <<"ACCESS_KEY_SECRET", "=", "s3cr3t", "LF">>>> }

\* Topic ARNs, byte by byte: arn:<partition>:sns:<region>:<account>:<name>.
ArnPartitions ==
  { <<"a", "w", "s">>,
    <<"a", "w", "s", "-", "c", "n">>,
    <<"a", "w", "s", "-", "u", "s", "-", "g", "o", "v">> }

ArnRegions ==
  { <<"e", "u", "-", "w", "e", "s", "t", "-", "1">>,
    <<"u", "s", "-", "e", "a", "s", "t", "-", "1">>,
    <<"c", "n", "-", "n", "o", "r", "t", "h", "-", "1">>,
    <<"u", "s", "-", "g", "o", "v", "-", "w", "e", "s", "t", "-", "1">> }

ArnRests == { <<"1", "2", "3", ":", "t">>, <<"4", "2", ":", "r", "e", "l", "-", "n">> }

MakeArn(partition, region, rest) ==
  <<"a", "r", "n", ":">> \o partition \o <<":", "s", "n", "s", ":">>
    \o region \o <<":">> \o rest

TopicArns ==
  { MakeArn(p, r, t) : p \in ArnPartitions, r \in ArnRegions, t \in ArnRests }

\* The topic ARN of the runs of main considered.
TopicArn ==
  MakeArn(<<"a", "w", "s">>, <<"e", "u", "-", "w", "e", "s", "t", "-", "1">>,
          <<"1", "2", "3", ":", "t">>)

\* The state at the start of main, but for the command line and the files.
Start ==
  /\ i = 0 /\ exitcode = -1 /\ failed = FALSE
  /\ key_id = NULL /\ key_secret = NULL
  /\ pos = 0 /\ buflen = PARTSZ /\ partcount = 0 /\ parts = <<>> /\ manifest = NULL
  /\ res = NoRes
  /\ regions = <<>> /\ taskid = NULL /\ volume = NULL /\ snapshot = NULL
  /\ ami = NULL /\ amis = <<>> /\ ridx = 0 /\ laststatus = NULL /\ errout = <<>>
  /\ req = NoReq /\ resp = NULL /\ stagesDone = {}
  /\ sent = [a \in Actions |-> 0]
  /\ poll = NoPoll /\ loop = NoLoop /\ out = <<>> /\ copies = <<>>
  /\ warned = FALSE
  /\ sig = [uses |-> 0]
  /\ spent = FALSE

Init ==
  /\ pc = "main"
  /\ argc \in {6, 7, 10}
  /\ public \in BOOLEAN /\ publicsnap \in BOOLEAN
  /\ keyfile \in MainKeyFiles /\ fopenOK \in BOOLEAN
  /\ topicarn = IF argc = 10 THEN TopicArn ELSE NULL
  /\ fsize \in Lengths
  /\ amp = NoAmp /\ wire = NoWire
  /\ Start

(* ------------------------------------------------------------------ *)
(* Steps shared by the stages.                                        *)
(* ------------------------------------------------------------------ *)
AbortExit0 == pc' = "exit" /\ exitcode' = 0 /\ failed' = TRUE

\* exit(1) after a diagnostic.
Abort == pc' = "exit" /\ exitcode' = 1 /\ failed' = TRUE

Goto(p) == pc' = p /\ UNCHANGED <<exitcode, failed>>

\* A step that sends no request.
Local ==
  req' = NoReq /\ resp' = NULL /\ loop' = NoLoop /\ UNCHANGED <<i, sent, copies, sig, spent>>

\* One signing result kept for all the attempts of a wrapped call.
aws_sign_once(sig0, attempt) == IF attempt = 0 THEN [uses |-> 0] ELSE sig0

\* aws_sign_s3_headers / aws_sign_ec2_headers / aws_sign_sns_headers, called
\* by s3_put, ec2_apicall and sns_publish themselves: a new timestamp and
\* signature, not yet used by any send.
aws_sign(sig0, attempt) == [uses |-> 0]

\* sslreq() with the request built from a signing result.
sslreq(sg) == [sg EXCEPT !.uses = Min(@ + 1, 2)]

\* A request sent with the attempts of the calls before counted in: the loop
\* index is not set back to 0 when a call is over.
SendCarry(wrapper, action, region, arg, w, body, outcome) ==
  /\ req'  = [action |-> action, region |-> region, arg |-> arg]
  /\ sent' = [sent EXCEPT ![action] = Min(@ + 1, IF wrapper = "none" THEN 2 ELSE 1)]
  /\ loop' = [wrapper  |-> wrapper,
              ok       |-> body # NULL,
              cause    |-> IF outcome = "giveup" THEN Cause(w) ELSE "none",
              result   |-> outcome]
  /\ i'    = IF outcome = "again" THEN i + 1 ELSE i
  /\ resp' = IF outcome = "return" THEN body ELSE NULL
  /\ copies' = IF action = "CopyImage" THEN Append(copies, region) ELSE copies
  /\ sig' = sslreq(aws_sign(sig, i))
  /\ spent' = (spent \/ (outcome # "again" /\ i > 0))

\* A step that sends one request: w is what the transport hands back, body
\* what the client made of it, outcome how the wrapper goes on.
Send(wrapper, action, region, arg, w, body, outcome) ==
  /\ req'  = [action |-> action, region |-> region, arg |-> arg]
  /\ sent' = [sent EXCEPT ![action] = Min(@ + 1, IF wrapper = "none" THEN 2 ELSE 1)]
  /\ loop' = [wrapper  |-> wrapper,
              ok       |-> body # NULL,
              cause    |-> IF outcome = "giveup" THEN Cause(w) ELSE "none",
              result   |-> outcome]
  /\ i'    = IF outcome = "again" THEN i + 1 ELSE 0
  /\ resp' = IF outcome = "return" THEN body ELSE NULL
  /\ copies' = IF action = "CopyImage" THEN Append(copies, region) ELSE copies
  /\ sig' = sslreq(aws_sign(sig, i))
  /\ spent' = (spent \/ (outcome # "again" /\ i > 0))

\* What the transport may hand back to an API call whose well-formed
\* answers have the bodies in B.
ApiWires(B) == {WireOK(b) : b \in B} \cup BadWires \cup BadApiWires

\* The stages of main, in the order main calls them.
MainOrderDeleteFirst ==
  <<"getregionlist", "uploadvolume", "importvolume", "waitforimport",
    "createsnapshot", "deletevolume", "waitforsnapshot", "makesnappublic",
    "registerimage", "waitforami", "public?">>

MainOrder ==
  <<"getregionlist", "uploadvolume", "importvolume", "waitforimport",
    "createsnapshot", "waitforsnapshot", "deletevolume", "makesnappublic",
    "registerimage", "waitforami", "public?">>

\* Where main goes on after stage s has returned success.
AfterStage(s) ==
  LET k   == CHOOSE j \in 1..Len(MainOrder) : MainOrder[j] = s
      nxt == MainOrder[k + 1]
  IN  IF nxt = "makesnappublic" /\ ~publicsnap THEN MainOrder[k + 2] ELSE nxt

(* ------------------------------------------------------------------ *)
(* main: command line and credentials.                                *)
(* ------------------------------------------------------------------ *)
ParseArgs ==
  /\ pc = "main"
  /\ IF (argc # 7) /\ (argc # 10) THEN Abort ELSE Goto("readkeys")
  /\ Local
  /\ UNCHANGED <<inputs, pure, keys, warned, upvars, ids, stagesDone, poll, out>>

\* main going on although readkeys failed.
ReadKeysIgnore ==
  /\ pc = "readkeys"
  /\ \E r \in {readkeys(keyfile)} :
       /\ key_id' = r.key_id /\ key_secret' = r.key_secret
       /\ Goto("getregionlist")
  /\ Local
  /\ UNCHANGED <<inputs, pure, warned, upvars, ids, stagesDone, poll, out>>

ReadKeys ==
  /\ pc = "readkeys"
  /\ \E r \in {readkeys(keyfile)} :
       /\ key_id' = r.key_id /\ key_secret' = r.key_secret
       /\ IF r.rc = 0 THEN Goto("getregionlist") ELSE Abort
  /\ Local
  /\ UNCHANGED <<inputs, pure, warned, upvars, ids, stagesDone, poll, out>>

(* ------------------------------------------------------------------ *)
(* encodeamp.                                                         *)
(* ------------------------------------------------------------------ *)
\* The first loop: the length of the escaped string.
RECURSIVE encodeamp_len(_)
encodeamp_len(s) ==
  IF s = <<>> THEN 0
  ELSE (IF Head(s) = "&" THEN 5 ELSE 1) + encodeamp_len(Tail(s))

\* The second loop: the bytes stored in t, in order.
RECURSIVE encodeamp_copy(_)
encodeamp_copy(s) ==
  IF s = <<>> THEN <<>>
  ELSE (IF Head(s) = "&" THEN <<"&", "a", "m", "p", ";">> ELSE <<Head(s)>>)
         \o encodeamp_copy(Tail(s))

\* A copy that escapes the first '&' only.
RECURSIVE encodeamp_first(_, _)
encodeamp_first(s, mallocOK) ==
  IF ~mallocOK THEN NULL
  ELSE IF s = <<>> THEN <<>>
  ELSE IF Head(s) = "&" THEN <<"&", "a", "m", "p", ";">> \o Tail(s)
  ELSE <<Head(s)>> \o encodeamp_first(Tail(s), mallocOK)

\* encodeamp(s): NULL if malloc(len + 1) fails; otherwise the bytes the
\* second loop stores, which fit the len + 1 bytes allocated only if they
\* are len bytes (a longer copy would write past the buffer: any bytes).
encodeamp(s, mallocOK) ==
  IF ~mallocOK THEN NULL
  ELSE IF Len(encodeamp_copy(s)) <= encodeamp_len(s) THEN encodeamp_copy(s)
  ELSE <<"overflow">>

\* The bytes of the strings escaped, and the strings of at most n bytes.
AmpBytes == {"&", "a", ";", "x"}

AmpStrings(n) == UNION {[1..k -> AmpBytes] : k \in 0..n}

\* A call of encodeamp.
Encodeamp ==
  /\ pc = "encodeamp"
  /\ \E mallocOK \in BOOLEAN : amp' = [amp EXCEPT !.t = encodeamp(amp.s, mallocOK)]
  /\ Goto("encodeamp_done")
  /\ Local
  /\ UNCHANGED <<inputs, wire, keys, warned, upvars, ids, stagesDone, poll, out>>

(* ------------------------------------------------------------------ *)
(* ec2_apicall on a response of any content.                          *)
(* ------------------------------------------------------------------ *)
\* The tokens of the response buffers, and the buffers of at most n tokens.
WireBytes == {" 200 ", "CRLF", "NUL", "x"}

Wires(n) == [err : BOOLEAN, bytes : UNION {[1..k -> WireBytes] : k \in 0..n}]

\* A call of ec2_apicall to which sslreq hands back wire.
Ec2ApiCall ==
  /\ pc = "ec2_apicall"
  /\ resp' = ec2_apicall(wire)
  /\ req' = NoReq /\ loop' = NoLoop
  /\ sig' = sslreq(aws_sign(sig, i))
  /\ Goto("ec2_apicall_done")
  /\ UNCHANGED <<inputs, pure, keys, warned, upvars, ids, stagesDone, poll, out,
                 i, sent, copies, spent>>

(* ------------------------------------------------------------------ *)
(* getregionlist.                                                     *)
(* ------------------------------------------------------------------ *)
RECURSIVE RegionNameTags(_)
RegionNameTags(rs) ==
  IF rs = <<>> THEN <<>>
  ELSE <<"<item>", "<regionName>", Head(rs), "</regionName>", "</item>">>
         \o RegionNameTags(Tail(rs))

\* The answers of DescribeRegions: the request goes to the home region's
\* endpoint, whose list of regions holds the home region (or, for the
\* failure path of getregionlist, nothing at all).
RegionBodies ==
  { <<"<regionInfo>">> \o RegionNameTags(SubSeq(AllRegions, 1, n)) \o <<"</regionInfo>">> :
      n \in {0} \cup 2..MaxRegions }
  \cup { <<"<Response>", "</Response>">> }

\* The region names of a DescribeRegions body, or NULL.
RegionsOf(body) ==
  LET regionInfo == xmlextract(body, "regionInfo")
      names == IF regionInfo = NULL THEN [err |-> TRUE, vals |-> <<>>]
               ELSE xmlextracts(regionInfo, "regionName")
  IN  IF names.err \/ Len(names.vals) = 0 THEN NULL
      ELSE [k \in 1..Len(names.vals) |-> names.vals[k][1]]

GetRegionList ==
  /\ pc = "getregionlist"
  /\ \E w \in ApiWires(RegionBodies) :
       \E body \in {ec2_apicall(w)} :
       \E outcome \in {ec2_apicall_loop(i, body)} :
       \E rs \in {IF body = NULL THEN NULL ELSE RegionsOf(body)} :
           /\ Send("ec2_apicall_loop", "DescribeRegions", HomeRegion, <<>>, w, body, outcome)
           /\ CASE outcome = "again" ->
                     Goto(pc) /\ UNCHANGED <<regions, stagesDone>>
                [] outcome = "return" /\ rs # NULL ->
                     /\ Goto(AfterStage("getregionlist"))
                     /\ regions' = rs
                     /\ stagesDone' = stagesDone \cup {"getregionlist"}
                [] OTHER ->
                     Abort /\ UNCHANGED <<regions, stagesDone>>
  /\ UNCHANGED <<inputs, pure, keys, warned, upvars, taskid, volume, snapshot, ami, amis, ridx,
                 laststatus, errout, poll, out>>

(* ------------------------------------------------------------------ *)
(* uploadvolume.                                                      *)
(* ------------------------------------------------------------------ *)
\* Length of the part at offset p: shorter if it hits EOF.
PartLenFull(size, p, len) == len

PartLen(size, p, len) == IF size - p < len THEN size - p ELSE len

\* The count attribute of <parts>.
PartCount(size) == (size + PARTSZ - 1) \div PARTSZ

\* The <part> block appended once the part at offset p has been PUT.
PartBlock(p, len) ==
  [index |-> p \div PARTSZ, start |-> p, end |-> p + len - 1,
   key |-> "part" \o ToString(p \div PARTSZ)]

\* fopen, malloc, str_init, asprintf, aws_sign_s3_querystr: the pointer x
\* now holds a new resource; one it still held is lost.
Acquire(r, x) ==
  [r EXCEPT ![x] = "held", !.lost = IF r[x] = "held" THEN @ + 1 ELSE @]

\* fclose, free, str_free: the resource of x is released; x holding none,
\* it is a release too many.
Release(r, x) ==
  [r EXCEPT ![x] = "released", !.twice = IF r[x] = "held" THEN @ ELSE @ + 1]

\* The allocations and releases of a stretch of code, in order.
RECURSIVE Run(_, _)
Run(r, ops) ==
  IF ops = <<>> THEN r
  ELSE Run(IF Head(ops)[1] = "+" THEN Acquire(r, Head(ops)[2]) ELSE Release(r, Head(ops)[2]),
           Tail(ops))

\* From fopen to the head of the manifest appended.
uploadvolume_head ==
  << <<"+", "f">>, <<"+", "buf">>, <<"+", "manifest">>, <<"+", "path">>,
     <<"+", "query">>, <<"-", "query">>, <<"+", "query">>,
     <<"+", "s">>, <<"-", "s">>, <<"-", "query">>, <<"-", "path">> >>

\* A presigned URL block of a part: query, encodeamp(query), s, free, free.
uploadvolume_url ==
  << <<"+", "query">>, <<"-", "query">>, <<"+", "query">>,
     <<"+", "s">>, <<"-", "s">>, <<"-", "query">> >>

\* After the PUT of a part: the <part> block, the three URL blocks,
\* free(path).
uploadvolume_part ==
  << <<"+", "s">> >> \o uploadvolume_url \o uploadvolume_url \o uploadvolume_url
    \o << <<"-", "path">> >>

\* str_export hands the manifest over as s; the path of the manifest.
uploadvolume_export == << <<"-", "manifest">>, <<"+", "s">>, <<"+", "path">> >>

\* The labels err6 .. err1, from label n on.
uploadvolume_err(n) ==
  SubSeq(<< <<"-", "s">>, <<"-", "query">>, <<"-", "path">>,
            <<"-", "manifest">>, <<"-", "buf">>, <<"-", "f">> >>, 7 - n, 6)

\* return from uploadvolume.
Return(r, how) == [r EXCEPT !.ret = how]

\* Opening the image and writing the head of the manifest.
UploadOpen ==
  /\ pc = "uploadvolume"
  /\ IF fopenOK
     THEN /\ Goto("uploadloop")
          /\ partcount' = PartCount(fsize)
          /\ pos' = 0 /\ buflen' = PARTSZ /\ parts' = <<>>
          /\ res' = Run(res, uploadvolume_head)
     ELSE /\ Abort /\ UNCHANGED <<partcount, pos, buflen, parts>>
          /\ res' = Return(res, "fail")
  /\ Local
  /\ UNCHANGED <<inputs, pure, keys, warned, manifest, ids, stagesDone, poll, out>>

\* Head of the loop over the parts: the next part is read, or the loop is left.
UploadRead ==
  /\ pc = "uploadloop"
  /\ IF pos < fsize
     THEN \E freadOK \in BOOLEAN :
            /\ buflen' = PartLen(fsize, pos, buflen)
            /\ IF freadOK
               THEN Goto("uploadpart") /\ res' = Acquire(res, "path")
               ELSE Abort /\ res' = Return(Run(res, uploadvolume_err(3)), "fail")
     ELSE /\ Goto("uploadmanifest") /\ UNCHANGED buflen
          /\ res' = Run(res, uploadvolume_export)
  /\ Local
  /\ UNCHANGED <<inputs, pure, keys, warned, pos, partcount, parts, manifest, ids, stagesDone, poll, out>>

\* One attempt of the PUT of the current part.
UploadPart ==
  /\ pc = "uploadpart"
  /\ \E w \in {WireOK(<<>>)} \cup BadWires \cup BadApiWires :
       \E rc \in {s3_put(w)} :
       \E outcome \in {s3_put_loop(i, rc)} :
           /\ Send("s3_put_loop", "PUT", HomeRegion, <<"part" \o ToString(pos \div PARTSZ)>>,
                   w, IF rc = 0 THEN <<>> ELSE NULL, outcome)
           /\ CASE outcome = "again" ->
                     Goto(pc) /\ UNCHANGED <<pos, parts, res>>
                [] outcome = "return" ->
                     /\ Goto("uploadloop")
                     /\ parts' = Append(parts, PartBlock(pos, buflen))
                     /\ pos' = pos + buflen
                     /\ res' = Run(res, uploadvolume_part)
                [] OTHER ->
                     /\ Abort /\ UNCHANGED <<pos, parts>>
                     /\ res' = Return(Run(res, uploadvolume_err(4)), "fail")
  /\ UNCHANGED <<inputs, pure, keys, warned, buflen, partcount, manifest, ids, stagesDone, poll, out>>

\* One attempt of the PUT of the manifest.
UploadManifest ==
  /\ pc = "uploadmanifest"
  /\ \E w \in {WireOK(<<>>)} \cup BadWires \cup BadApiWires :
       \E rc \in {s3_put(w)} :
       \E outcome \in {s3_put_loop(i, rc)} :
           /\ Send("s3_put_loop", "PUT", HomeRegion, <<"manifest.xml">>,
                   w, IF rc = 0 THEN <<>> ELSE NULL, outcome)
           /\ CASE outcome = "again" ->
                     Goto(pc) /\ UNCHANGED <<manifest, stagesDone, res>>
                [] outcome = "return" ->
                     /\ Goto(AfterStage("uploadvolume"))
                     /\ manifest' = <<"/nonce/manifest.xml">>
                     /\ stagesDone' = stagesDone \cup {"uploadvolume"}
                     /\ res' = Return(Release(res, "s"), "ok")
                [] OTHER ->
                     /\ Abort /\ UNCHANGED <<manifest, stagesDone>>
                     /\ res' = Return(Run(res, << <<"-", "path">>, <<"-", "s">> >>
                                                \o uploadvolume_err(2)), "fail")
  /\ UNCHANGED <<inputs, pure, keys, warned, pos, buflen, partcount, parts, ids, poll, out>>

(* ------------------------------------------------------------------ *)
(* Polling stages: bookkeeping of one run of a do { } while (1) loop. *)
(* ------------------------------------------------------------------ *)
\* The counters of the polling stage `key`: those in progress, or new ones.
CurPoll(key) ==
  IF poll.key = key /\ poll.state = "polling" THEN poll
  ELSE [key |-> key, queries |-> 0, nonterm |-> 0, sleeps |-> 0,
        dots |-> 0, lines |-> 0, state |-> "polling"]

\* The loop was left by break (a terminal answer to a query).
PollDone(p) == [p EXCEPT !.queries = @ + 1, !.state = "done"]

\* The loop was left by goto err (a fatal answer to a query).
PollFatal(p) == [p EXCEPT !.queries = @ + 1, !.state = "fatal"]

\* A non-terminal answer: what was printed, then sleep(10).
PollAgainNoSleep(p, dot) ==
  [p EXCEPT !.queries = @ + 1, !.nonterm = @ + 1,
            !.dots = @ + (IF dot THEN 1 ELSE 0),
            !.lines = @ + (IF dot THEN 0 ELSE 1)]

PollAgain(p, dot) ==
  [p EXCEPT !.queries = @ + 1, !.nonterm = @ + 1, !.sleeps = @ + 1,
            !.dots = @ + (IF dot THEN 1 ELSE 0),
            !.lines = @ + (IF dot THEN 0 ELSE 1)]

\* strstr(resp, "<return>true</return>") != NULL.
ReturnTrueLax(body) == TRUE

ReturnTrue(body) == StrStr(body, <<"<return>", "true", "</return>">>) # 0

\* <tag>v</tag> for each v, and a body without the tag.
TagBodies(tag, vals) ==
  { <<"<" \o tag \o ">", v, "</" \o tag \o ">">> : v \in vals }
  \cup { <<"<Error>", "</Error>">> }

ReturnBodies == TagBodies("return", {"true", "false"})

(* ------------------------------------------------------------------ *)
(* importvolume.                                                      *)
(* ------------------------------------------------------------------ *)
\* importvolume calling ec2_apicall_loop instead of ec2_apicall.
ImportVolumeRetry ==
  /\ pc = "importvolume"
  /\ \E w \in ApiWires(TagBodies("conversionTaskId", {"import-vol-1"})) :
       \E body \in {ec2_apicall(w)} :
       \E outcome \in {ec2_apicall_loop(i, body)} :
       \E id \in {IF body = NULL THEN NULL ELSE xmlextract(body, "conversionTaskId")} :
           /\ Send("ec2_apicall_loop", "ImportVolume", HomeRegion, manifest, w, body, outcome)
           /\ CASE outcome = "again" ->
                     Goto(pc) /\ UNCHANGED <<taskid, stagesDone>>
                [] outcome = "return" /\ id # NULL ->
                     /\ Goto(AfterStage("importvolume"))
                     /\ taskid' = id
                     /\ stagesDone' = stagesDone \cup {"importvolume"}
                [] OTHER ->
                     Abort /\ UNCHANGED <<taskid, stagesDone>>
  /\ UNCHANGED <<inputs, pure, keys, warned, upvars, regions, volume, snapshot, ami, amis, ridx,
                 laststatus, errout, poll, out>>

ImportVolume ==
  /\ pc = "importvolume"
  /\ \E w \in ApiWires(TagBodies("conversionTaskId", {"import-vol-1"})) :
       \E body \in {ec2_apicall(w)} :
       \E outcome \in {single_attempt(i, body)} :
       \E id \in {IF body = NULL THEN NULL ELSE xmlextract(body, "conversionTaskId")} :
           /\ Send("none", "ImportVolume", HomeRegion, manifest, w, body, outcome)
           /\ IF outcome = "return" /\ id # NULL
              THEN /\ Goto(AfterStage("importvolume"))
                   /\ taskid' = id
                   /\ stagesDone' = stagesDone \cup {"importvolume"}
              ELSE Abort /\ UNCHANGED <<taskid, stagesDone>>
  /\ UNCHANGED <<inputs, pure, keys, warned, upvars, regions, volume, snapshot, ami, amis, ridx,
                 laststatus, errout, poll, out>>

(* ------------------------------------------------------------------ *)
(* waitforimport.                                                     *)
(* ------------------------------------------------------------------ *)
\* printstatus that does not remember a status that has changed.
printstatus_keep(prefix, status, last) ==
  IF last = NULL
  THEN [laststatus |-> status, print |-> "first", text |-> <<prefix, ": ">> \o status]
  ELSE IF status # last
  THEN [laststatus |-> last, print |-> "changed",
        text |-> <<"LF", prefix, ": ">> \o status]
  ELSE [laststatus |-> last, print |-> "dot", text |-> <<".">>]

\* printstatus: the status remembered afterwards and what was printed.
printstatus(prefix, status, last) ==
  IF last = NULL
  THEN [laststatus |-> status, print |-> "first", text |-> <<prefix, ": ">> \o status]
  ELSE IF status # last
  THEN [laststatus |-> status, print |-> "changed",
        text |-> <<"LF", prefix, ": ">> \o status]
  ELSE [laststatus |-> last, print |-> "dot", text |-> <<".">>]

ConvBody(st, vol, msg) ==
  <<"<conversionTask>", "<state>", st, "</state>">>
  \o (IF msg = "none" THEN <<>> ELSE <<"<statusMessage>", msg, "</statusMessage>">>)
  \o (CASE vol = "none" -> <<>>
        [] vol = "noid" -> <<"<volume>", "<size>", "1", "</size>", "</volume>">>
        [] OTHER -> <<"<volume>", "<size>", "1", "</size>", "<id>", vol, "</id>", "</volume>">>)
  \o <<"</conversionTask>">>

ConvStates == {"active", "completed", "cancelled"}

ConvBodies ==
  { ConvBody(st, vol, msg) : st \in ConvStates,
                             vol \in {"none", "noid", "vol-123"},
                             msg \in {"none", "Pending", "Downloading"} }

ActiveMarker == <<"<state>", "active", "</state>">>

\* One pass through the body of the loop of waitforimport, on an accepted
\* response: "done" with the volume ID, "again" with the status, or "fatal".
waitforimport_iter_noactive(body) ==
  LET vol    == xmlextract(body, "volume")
      volid  == IF vol = NULL THEN NULL ELSE xmlextract(vol, "id")
      status == xmlextract(body, "statusMessage")
  IN  IF vol = NULL THEN [kind |-> "fatal", val |-> NULL]
      ELSE IF volid # NULL
        THEN [kind |-> "done", val |-> volid]
      ELSE IF status = NULL THEN [kind |-> "fatal", val |-> NULL]
      ELSE [kind |-> "again", val |-> status]

waitforimport_iter(body) ==
  LET vol    == xmlextract(body, "volume")
      volid  == IF vol = NULL THEN NULL ELSE xmlextract(vol, "id")
      status == xmlextract(body, "statusMessage")
  IN  IF vol = NULL THEN [kind |-> "fatal", val |-> NULL]
      ELSE IF StrStr(body, ActiveMarker) = 0 /\ volid # NULL
        THEN [kind |-> "done", val |-> volid]
      ELSE IF status = NULL THEN [kind |-> "fatal", val |-> NULL]
      ELSE [kind |-> "again", val |-> status]

WaitForImport ==
  /\ pc = "waitforimport"
  /\ \E w \in ApiWires(ConvBodies) :
       \E body \in {ec2_apicall(w)} :
       \E outcome \in {ec2_apicall_loop(i, body)} :
       \E it \in {IF body = NULL THEN [kind |-> "fatal", val |-> NULL] ELSE waitforimport_iter(body)} :
       \E p \in {CurPoll("import")} :
       \E pr \in {printstatus("Importing volume", it.val, laststatus)} :
           /\ (outcome = "return" /\ it.kind = "again") => p.nonterm < MaxPolls
           /\ Send("ec2_apicall_loop", "DescribeConversionTasks", HomeRegion, taskid,
                   w, body, outcome)
           /\ CASE outcome = "again" ->
                     /\ Goto(pc) /\ poll' = p
                     /\ UNCHANGED <<volume, laststatus, errout, stagesDone>>
                [] outcome = "return" /\ it.kind = "done" ->
                     /\ Goto(AfterStage("waitforimport"))
                     /\ volume' = it.val
                     /\ laststatus' = NULL /\ errout' = <<>>
                     /\ poll' = PollDone(p)
                     /\ stagesDone' = stagesDone \cup {"waitforimport"}
                [] outcome = "return" /\ it.kind = "again" ->
                     /\ Goto(pc)
                     /\ laststatus' = pr.laststatus
                     /\ errout' = Append(errout, pr.text)
                     /\ poll' = PollAgain(p, pr.print = "dot")
                     /\ UNCHANGED <<volume, stagesDone>>
                [] outcome = "return" /\ it.kind = "fatal" ->
                     /\ Abort /\ poll' = PollFatal(p)
                     /\ laststatus' = NULL /\ errout' = <<>>
                     /\ UNCHANGED <<volume, stagesDone>>
                [] OTHER ->
                     /\ Abort /\ poll' = p
                     /\ laststatus' = NULL /\ errout' = <<>>
                     /\ UNCHANGED <<volume, stagesDone>>
  /\ UNCHANGED <<inputs, pure, keys, warned, upvars, regions, taskid, snapshot, ami, amis, ridx, out>>

(* ------------------------------------------------------------------ *)
(* createsnapshot, waitforsnapshot, deletevolume, makesnappublic.     *)
(* ------------------------------------------------------------------ *)
CreateSnapshot ==
  /\ pc = "createsnapshot"
  /\ \E w \in ApiWires(TagBodies("snapshotId", {"snap-1"})) :
       \E body \in {ec2_apicall(w)} :
       \E outcome \in {single_attempt(i, body)} :
       \E id \in {IF body = NULL THEN NULL ELSE xmlextract(body, "snapshotId")} :
           /\ Send("none", "CreateSnapshot", HomeRegion, volume, w, body, outcome)
           /\ IF outcome = "return" /\ id # NULL
              THEN /\ Goto(AfterStage("createsnapshot"))
                   /\ snapshot' = id
                   /\ stagesDone' = stagesDone \cup {"createsnapshot"}
              ELSE Abort /\ UNCHANGED <<snapshot, stagesDone>>
  /\ UNCHANGED <<inputs, pure, keys, warned, upvars, regions, taskid, volume, ami, amis, ridx,
                 laststatus, errout, poll, out>>

\* One pass through the body of the loop of waitforsnapshot / waitforami:
\* the first <tag> of the response against the success marker and "pending".
status_iter_lax(body, tag, success) ==
  LET status == xmlextract(body, tag)
  IN  IF status = NULL THEN "fatal"
      ELSE IF status = <<success>> THEN "done"
      ELSE "again"

status_iter(body, tag, success) ==
  LET status == xmlextract(body, tag)
  IN  IF status = NULL THEN "fatal"
      ELSE IF status = <<success>> THEN "done"
      ELSE IF status = <<"pending">> THEN "again"
      ELSE "fatal"

\* waitforsnapshot looking at the snapshot once: 'pending' is fatal.
waitforsnapshot_iter_once(body) ==
  IF xmlextract(body, "status") = <<"completed">> THEN "done" ELSE "fatal"

waitforsnapshot_iter(body) == status_iter(body, "status", "completed")

\* waitforami leaving its loop on any image state.
waitforami_iter_early(body) ==
  IF xmlextract(body, "imageState") = NULL THEN "fatal" ELSE "done"

waitforami_iter(body) == status_iter(body, "imageState", "available")

WaitForSnapshot ==
  /\ pc = "waitforsnapshot"
  /\ \E w \in ApiWires(TagBodies("status", {"pending", "completed", "error"})) :
       \E body \in {ec2_apicall(w)} :
       \E outcome \in {ec2_apicall_loop(i, body)} :
       \E kind \in {IF body = NULL THEN "fatal" ELSE waitforsnapshot_iter(body)} :
       \E p \in {CurPoll("snapshot")} :
           /\ (outcome = "return" /\ kind = "again") => p.nonterm < MaxPolls
           /\ Send("ec2_apicall_loop", "DescribeSnapshots", HomeRegion, snapshot,
                   w, body, outcome)
           /\ CASE outcome = "again" ->
                     Goto(pc) /\ poll' = p /\ UNCHANGED stagesDone
                [] outcome = "return" /\ kind = "done" ->
                     /\ Goto(AfterStage("waitforsnapshot"))
                     /\ poll' = PollDone(p)
                     /\ stagesDone' = stagesDone \cup {"waitforsnapshot"}
                [] outcome = "return" /\ kind = "again" ->
                     Goto(pc) /\ poll' = PollAgain(p, TRUE) /\ UNCHANGED stagesDone
                [] outcome = "return" /\ kind = "fatal" ->
                     Abort /\ poll' = PollFatal(p) /\ UNCHANGED stagesDone
                [] OTHER ->
                     Abort /\ poll' = p /\ UNCHANGED stagesDone
  /\ UNCHANGED <<inputs, pure, keys, warned, upvars, ids, out>>

DeleteVolume ==
  /\ pc = "deletevolume"
  /\ \E w \in ApiWires(ReturnBodies) :
       \E body \in {ec2_apicall(w)} :
       \E outcome \in {single_attempt(i, body)} :
           /\ Send("none", "DeleteVolume", HomeRegion, volume, w, body, outcome)
           /\ IF outcome = "return" /\ ReturnTrue(body)
              THEN /\ Goto(AfterStage("deletevolume"))
                   /\ stagesDone' = stagesDone \cup {"deletevolume"}
              ELSE Abort /\ UNCHANGED stagesDone
  /\ UNCHANGED <<inputs, pure, keys, warned, upvars, ids, poll, out>>

MakeSnapPublic ==
  /\ pc = "makesnappublic"
  /\ \E w \in ApiWires(ReturnBodies) :
       \E body \in {ec2_apicall(w)} :
       \E outcome \in {ec2_apicall_loop(i, body)} :
           /\ Send("ec2_apicall_loop", "ModifySnapshotAttribute", HomeRegion, snapshot,
                   w, body, outcome)
           /\ CASE outcome = "again" ->
                     Goto(pc) /\ UNCHANGED stagesDone
                [] outcome = "return"
                   /\ ReturnTrue(body) ->
                     /\ Goto(AfterStage("makesnappublic"))
                     /\ stagesDone' = stagesDone \cup {"makesnappublic"}
                [] OTHER ->
                     Abort /\ UNCHANGED stagesDone
  /\ UNCHANGED <<inputs, pure, keys, warned, upvars, ids, poll, out>>

(* ------------------------------------------------------------------ *)
(* registerimage, waitforami.                                         *)
(* ------------------------------------------------------------------ *)
RegisterImage ==
  /\ pc = "registerimage"
  /\ \E w \in ApiWires(TagBodies("imageId", {"ami-home"})) :
       \E body \in {ec2_apicall(w)} :
       \E outcome \in {single_attempt(i, body)} :
       \E id \in {IF body = NULL THEN NULL ELSE xmlextract(body, "imageId")} :
           /\ Send("none", "RegisterImage", HomeRegion, snapshot, w, body, outcome)
           /\ IF outcome = "return" /\ id # NULL
              THEN /\ Goto(AfterStage("registerimage"))
                   /\ ami' = id
                   /\ stagesDone' = stagesDone \cup {"registerimage"}
              ELSE Abort /\ UNCHANGED <<ami, stagesDone>>
  /\ UNCHANGED <<inputs, pure, keys, warned, upvars, regions, taskid, volume, snapshot, amis, ridx,
                 laststatus, errout, poll, out>>

ImageBodies == TagBodies("imageState", {"pending", "available", "failed"})

\* waitforami(region, id), called at position pc; on success main goes on
\* at `next` with the loop index `nextidx`.
WaitForAmiIn(region, id, stage, next, nextidx) ==
  \E w \in ApiWires(ImageBodies) :
    \E body \in {ec2_apicall(w)} :
    \E outcome \in {ec2_apicall_loop(i, body)} :
    \E kind \in {IF body = NULL THEN "fatal" ELSE waitforami_iter(body)} :
    \E p \in {CurPoll(region)} :
        /\ (outcome = "return" /\ kind = "again") => p.nonterm < MaxPolls
        /\ Send("ec2_apicall_loop", "DescribeImages", region, id, w, body, outcome)
        /\ CASE outcome = "again" ->
                  Goto(pc) /\ poll' = p /\ UNCHANGED <<stagesDone, ridx>>
             [] outcome = "return" /\ kind = "done" ->
                  /\ Goto(next)
                  /\ ridx' = nextidx
                  /\ poll' = PollDone(p)
                  /\ stagesDone' = stagesDone \cup {stage}
             [] outcome = "return" /\ kind = "again" ->
                  Goto(pc) /\ poll' = PollAgain(p, TRUE) /\ UNCHANGED <<stagesDone, ridx>>
             [] outcome = "return" /\ kind = "fatal" ->
                  Abort /\ poll' = PollFatal(p) /\ UNCHANGED <<stagesDone, ridx>>
             [] OTHER ->
                  Abort /\ poll' = p /\ UNCHANGED <<stagesDone, ridx>>

WaitForAmi ==
  /\ pc = "waitforami"
  /\ WaitForAmiIn(HomeRegion, ami, "waitforami", AfterStage("waitforami"), ridx)
  /\ UNCHANGED <<inputs, pure, keys, warned, upvars, regions, taskid, volume, snapshot, ami, amis,
                 laststatus, errout, out>>

\* printf("Created AMI in %s region: %s\n", ...): a line of standard output.
AmiLineHome(region, id) == [region |-> HomeRegion, id |-> id]

AmiLine(region, id) == [region |-> region, id |-> id]

\* Without --public: the one line on standard output, exit(0).
NotPublic ==
  /\ pc = "public?" /\ ~public
  /\ out' = Append(out, AmiLine(HomeRegion, ami))
  /\ pc' = "exit" /\ exitcode' = 0 /\ failed' = failed
  /\ Local
  /\ UNCHANGED <<inputs, pure, keys, warned, upvars, ids, stagesDone, poll>>

(* ------------------------------------------------------------------ *)
(* main: copies into the other regions.                               *)
(* ------------------------------------------------------------------ *)
\* strcmp(regions[i], region) == 0: the region where the image was built.
IsHomeRegionNever(r) == FALSE

IsHomeRegion(r) == r = HomeRegion

\* The copy loop entered whether or not --public was given.
CopyStartAlways ==
  /\ pc = "public?"
  /\ Goto("copy")
  /\ amis' = <<>> /\ ridx' = 1
  /\ Local
  /\ UNCHANGED <<inputs, pure, keys, warned, upvars, regions, taskid, volume, snapshot, ami,
                 laststatus, errout, stagesDone, poll, out>>

\* With --public: the array of AMI names is allocated, the copy loop starts.
CopyStart ==
  /\ pc = "public?" /\ public
  /\ Goto("copy")
  /\ amis' = <<>> /\ ridx' = 1
  /\ Local
  /\ UNCHANGED <<inputs, pure, keys, warned, upvars, regions, taskid, volume, snapshot, ami,
                 laststatus, errout, stagesDone, poll, out>>

\* The home region is not copied to: amis[i] = strdup(ami).
CopySkipHome ==
  /\ pc = "copy" /\ ridx <= Len(regions) /\ IsHomeRegion(regions[ridx])
  /\ Goto(pc)
  /\ amis' = Append(amis, ami) /\ ridx' = ridx + 1
  /\ Local
  /\ UNCHANGED <<inputs, pure, keys, warned, upvars, regions, taskid, volume, snapshot, ami,
                 laststatus, errout, stagesDone, poll, out>>

\* copyimage calling ec2_apicall_loop instead of ec2_apicall.
CopyImageRetry ==
  /\ pc = "copy" /\ ridx <= Len(regions) /\ ~IsHomeRegion(regions[ridx])
  /\ \E w \in ApiWires(TagBodies("imageId", {"ami-" \o regions[ridx]})) :
       \E body \in {ec2_apicall(w)} :
       \E outcome \in {ec2_apicall_loop(i, body)} :
       \E id \in {IF body = NULL THEN NULL ELSE xmlextract(body, "imageId")} :
           /\ Send("ec2_apicall_loop", "CopyImage", regions[ridx], ami, w, body, outcome)
           /\ CASE outcome = "again" ->
                     Goto(pc) /\ UNCHANGED <<amis, ridx, stagesDone>>
                [] outcome = "return" /\ id # NULL ->
                     /\ Goto(pc)
                     /\ amis' = Append(amis, id) /\ ridx' = ridx + 1
                     /\ stagesDone' = stagesDone \cup {"copyimage@" \o regions[ridx]}
                [] OTHER ->
                     Abort /\ UNCHANGED <<amis, ridx, stagesDone>>
  /\ UNCHANGED <<inputs, pure, keys, warned, upvars, regions, taskid, volume, snapshot, ami,
                 laststatus, errout, poll, out>>

CopyImage ==
  /\ pc = "copy" /\ ridx <= Len(regions) /\ ~IsHomeRegion(regions[ridx])
  /\ \E w \in ApiWires(TagBodies("imageId", {"ami-" \o regions[ridx]})) :
       \E body \in {ec2_apicall(w)} :
       \E outcome \in {single_attempt(i, body)} :
       \E id \in {IF body = NULL THEN NULL ELSE xmlextract(body, "imageId")} :
           /\ Send("none", "CopyImage", regions[ridx], ami, w, body, outcome)
           /\ IF outcome = "return" /\ id # NULL
              THEN /\ Goto(pc)
                   /\ amis' = Append(amis, id) /\ ridx' = ridx + 1
                   /\ stagesDone' = stagesDone \cup {"copyimage@" \o regions[ridx]}
              ELSE Abort /\ UNCHANGED <<amis, ridx, stagesDone>>
  /\ UNCHANGED <<inputs, pure, keys, warned, upvars, regions, taskid, volume, snapshot, ami,
                 laststatus, errout, poll, out>>

\* End of the copy loop.
CopyEnd ==
  /\ pc = "copy" /\ ridx > Len(regions)
  /\ Goto("waitcopy")
  /\ ridx' = 1
  /\ Local
  /\ UNCHANGED <<inputs, pure, keys, warned, upvars, regions, taskid, volume, snapshot, ami, amis,
                 laststatus, errout, stagesDone, poll, out>>

WaitCopySkipHome ==
  /\ pc = "waitcopy" /\ ridx <= Len(regions) /\ IsHomeRegion(regions[ridx])
  /\ Goto(pc)
  /\ ridx' = ridx + 1
  /\ Local
  /\ UNCHANGED <<inputs, pure, keys, warned, upvars, regions, taskid, volume, snapshot, ami, amis,
                 laststatus, errout, stagesDone, poll, out>>

WaitCopy ==
  /\ pc = "waitcopy" /\ ridx <= Len(regions) /\ ~IsHomeRegion(regions[ridx])
  /\ WaitForAmiIn(regions[ridx], amis[ridx], "waitforami@" \o regions[ridx],
                  pc, ridx + 1)
  /\ UNCHANGED <<inputs, pure, keys, warned, upvars, regions, taskid, volume, snapshot, ami, amis,
                 laststatus, errout, out>>

WaitCopyEnd ==
  /\ pc = "waitcopy" /\ ridx > Len(regions)
  /\ Goto("makepublic")
  /\ ridx' = 1
  /\ Local
  /\ UNCHANGED <<inputs, pure, keys, warned, upvars, regions, taskid, volume, snapshot, ami, amis,
                 laststatus, errout, stagesDone, poll, out>>

MakePublic ==
  /\ pc = "makepublic" /\ ridx <= Len(regions)
  /\ \E w \in ApiWires(ReturnBodies) :
       \E body \in {ec2_apicall(w)} :
       \E outcome \in {ec2_apicall_loop(i, body)} :
           /\ Send("ec2_apicall_loop", "ModifyImageAttribute", regions[ridx], amis[ridx],
                   w, body, outcome)
           /\ CASE outcome = "again" ->
                     Goto(pc) /\ UNCHANGED <<ridx, stagesDone>>
                [] outcome = "return"
                   /\ ReturnTrue(body) ->
                     /\ Goto(pc)
                     /\ ridx' = ridx + 1
                     /\ stagesDone' = stagesDone \cup {"makepublic@" \o regions[ridx]}
                [] OTHER ->
                     Abort /\ UNCHANGED <<ridx, stagesDone>>
  /\ UNCHANGED <<inputs, pure, keys, warned, upvars, regions, taskid, volume, snapshot, ami, amis,
                 laststatus, errout, poll, out>>

\* The list of AMIs on standard output; then the notification, or return (0).
PrintAmis ==
  /\ pc = "makepublic" /\ ridx > Len(regions)
  /\ out' = out \o [k \in 1..Len(regions) |-> AmiLine(regions[k], amis[k])]
  /\ IF argc = 10
     THEN Goto("sns_publish")
     ELSE pc' = "exit" /\ exitcode' = 0 /\ failed' = failed
  /\ Local
  /\ UNCHANGED <<inputs, pure, keys, warned, upvars, ids, stagesDone, poll>>

(* ------------------------------------------------------------------ *)
(* sns_publish.                                                       *)
(* ------------------------------------------------------------------ *)
\* The bytes of a string put together again.
RECURSIVE Str(_)
Str(bytes) == IF bytes = <<>> THEN "" ELSE Head(bytes) \o Str(Tail(bytes))

\* The region kept up to the end of the ARN.
sns_region_whole(arn) == Str(SubSeq(arn, 13, Len(arn)))

\* region = strdup(&topicarn[12]); region[strcspn(region, ":")] = '\0'.
sns_region(arn) ==
  LET t      == SubSeq(arn, 13, Len(arn))
      colons == {k \in 1..Len(t) : t[k] = ":"}
      n      == IF colons = {} THEN Len(t)
                ELSE (CHOOSE k \in colons : \A m \in colons : k <= m) - 1
  IN  Str(SubSeq(t, 1, n))

\* sns_publish returns 0 only if the accepted response holds <MessageId>.
sns_publish(body) ==
  IF body # NULL /\ StrStr(body, <<"<MessageId>">>) # 0 THEN 0 ELSE -1

\* A failed notification ending the process with exit(1).
SnsPublishFatal ==
  /\ pc = "sns_publish"
  /\ \E w \in ApiWires({<<"<MessageId>", "m-1", "</MessageId>">>, <<"<Error>", "</Error>">>}) :
       \E body \in {ec2_apicall(w)} :
       \E outcome \in {single_attempt(i, body)} :
           /\ Send("none", "Publish", sns_region(topicarn), <<>>, w, body, outcome)
           /\ IF sns_publish(body) = 0
              THEN /\ stagesDone' = stagesDone \cup {"sns_publish"}
                   /\ pc' = "exit" /\ exitcode' = 0 /\ failed' = failed
                   /\ warned' = FALSE
              ELSE Abort /\ warned' = TRUE /\ UNCHANGED stagesDone
  /\ UNCHANGED <<inputs, pure, keys, upvars, ids, poll, out>>

\* main: the notification is tried once; a failure is reported and the
\* process still returns 0.
SnsPublish ==
  /\ pc = "sns_publish"
  /\ \E w \in ApiWires({<<"<MessageId>", "m-1", "</MessageId>">>, <<"<Error>", "</Error>">>}) :
       \E body \in {ec2_apicall(w)} :
       \E outcome \in {single_attempt(i, body)} :
           /\ Send("none", "Publish", sns_region(topicarn), <<>>, w, body, outcome)
           /\ IF sns_publish(body) = 0
              THEN stagesDone' = stagesDone \cup {"sns_publish"} /\ warned' = FALSE
              ELSE warned' = TRUE /\ UNCHANGED stagesDone
  /\ pc' = "exit" /\ exitcode' = 0 /\ failed' = failed
  /\ UNCHANGED <<inputs, pure, keys, upvars, ids, poll, out>>

(* ------------------------------------------------------------------ *)
(* The program.                                                       *)
(* ------------------------------------------------------------------ *)
Next ==
  \/ ParseArgs \/ ReadKeys \/ GetRegionList
  \/ UploadOpen \/ UploadRead \/ UploadPart \/ UploadManifest
  \/ ImportVolume \/ WaitForImport
  \/ CreateSnapshot \/ WaitForSnapshot \/ DeleteVolume \/ MakeSnapPublic
  \/ RegisterImage \/ WaitForAmi \/ NotPublic
  \/ CopyStart \/ CopySkipHome \/ CopyImage \/ CopyEnd
  \/ WaitCopySkipHome \/ WaitCopy \/ WaitCopyEnd
  \/ MakePublic \/ PrintAmis \/ SnsPublish

Spec == Init /\ [][Next]_vars

\* The runs, with a key file and a disk image that can be read, in which
\* main goes on as long as it has a step to take: every remote call returns.  That no entity polled stays non-terminal for ever
\* is the MaxPolls guard of the polling stages.
InitFair ==
  /\ Init
  /\ argc = 10 /\ fopenOK /\ readkeys(keyfile).rc = 0
  /\ fsize \in {0, PARTSZ + 1}

SpecFair == InitFair /\ [][Next]_vars /\ WF_vars(Next)

\* readkeys on its own: main at the call of readkeys, for every key file.
InitKeys ==
  /\ pc = "readkeys"
  /\ argc = 7 /\ public = FALSE /\ publicsnap = FALSE
  /\ keyfile \in KeyFiles /\ fopenOK = TRUE /\ fsize = 0 /\ topicarn = NULL
  /\ amp = NoAmp /\ wire = NoWire
  /\ Start

NextKeys == ReadKeys

SpecKeys == InitKeys /\ [][NextKeys]_vars

\* encodeamp on its own, for every string of at most MaxLen bytes.
InitAmp ==
  /\ pc = "encodeamp"
  /\ argc = 10 /\ public = FALSE /\ publicsnap = FALSE
  /\ keyfile = <<>> /\ fopenOK = TRUE /\ fsize = 0 /\ topicarn = NULL
  /\ amp \in [s : AmpStrings(MaxLen), t : {NULL}] /\ wire = NoWire
  /\ Start

NextAmp == Encodeamp

SpecAmp == InitAmp /\ [][NextAmp]_vars

\* ec2_apicall on its own, for every response of at most MaxWire tokens.
InitApi ==
  /\ pc = "ec2_apicall"
  /\ argc = 7 /\ public = FALSE /\ publicsnap = FALSE
  /\ keyfile = <<>> /\ fopenOK = TRUE /\ fsize = 0 /\ topicarn = NULL
  /\ amp = NoAmp /\ wire \in Wires(MaxWire)
  /\ Start

NextApi == Ec2ApiCall

SpecApi == InitApi /\ [][NextApi]_vars

\* sns_publish on its own: main at the call of sns_publish after a run
\* with --public and two regions, for every topic ARN.
InitSns ==
  /\ pc = "sns_publish" /\ i = 0 /\ exitcode = -1 /\ failed = FALSE
  /\ argc = 10 /\ public = TRUE /\ publicsnap = FALSE
  /\ keyfile = <<<<"ACCESS_KEY_ID", "=", "AKID", "LF">>,
                 <<"ACCESS_KEY_SECRET", "=", "s3cr3t", "LF">>>>
  /\ key_id = <<"AKID">> /\ key_secret = <<"s3cr3t">>
  /\ topicarn \in TopicArns
  /\ fopenOK = TRUE /\ fsize = 0
  /\ pos = 0 /\ buflen = PARTSZ /\ partcount = 0 /\ parts = <<>>
  /\ manifest = <<"/nonce/manifest.xml">>
  /\ res = [f |-> "held", buf |-> "held", manifest |-> "released", path |-> "held",
            s |-> "released", query |-> "released", lost |-> 0, twice |-> 0, ret |-> "ok"]
  /\ regions = <<"eu-west-1", "us-east-1">>
  /\ taskid = <<"import-vol-1">> /\ volume = <<"vol-123">> /\ snapshot = <<"snap-1">>
  /\ ami = <<"ami-home">> /\ amis = <<<<"ami-eu-west-1">>, <<"ami-home">>>>
  /\ ridx = 3 /\ laststatus = NULL /\ errout = <<>>
  /\ req = NoReq /\ resp = NULL
  /\ stagesDone = {"getregionlist", "uploadvolume", "importvolume", "waitforimport",
                   "createsnapshot", "waitforsnapshot", "deletevolume", "registerimage",
                   "waitforami", "copyimage@eu-west-1", "waitforami@eu-west-1",
                   "makepublic@eu-west-1", "makepublic@us-east-1"}
  /\ sent = [a \in Actions |->
               IF a \in {"ModifySnapshotAttribute", "Publish"} THEN 0 ELSE 1]
  /\ poll = [key |-> "eu-west-1", queries |-> 1, nonterm |-> 0, sleeps |-> 0,
             dots |-> 0, lines |-> 0, state |-> "done"]
  /\ loop = NoLoop
  /\ out = <<AmiLine("eu-west-1", <<"ami-eu-west-1">>), AmiLine("us-east-1", <<"ami-home">>)>>
  /\ copies = <<"eu-west-1">> /\ warned = FALSE /\ sig = [uses |-> 1]
  /\ spent = FALSE
  /\ amp = NoAmp /\ wire = NoWire

NextSns == SnsPublish

SpecSns == InitSns /\ [][NextSns]_vars

TypeOK ==
  /\ exitcode \in {-1, 0, 1}
  /\ i \in 0..9
  /\ (pc = "exit") = (exitcode # -1)

(* ------------------------------------------------------------------ *)
(* Properties.                                                        *)
(* ------------------------------------------------------------------ *)
\* The home-region provisioning stages and the Action each one sends.
Pipeline ==
  <<"importvolume", "waitforimport", "createsnapshot", "waitforsnapshot",
    "deletevolume", "makesnappublic", "registerimage", "waitforami">>

ActionOf ==
  <<"ImportVolume", "DescribeConversionTasks", "CreateSnapshot", "DescribeSnapshots",
    "DeleteVolume", "ModifySnapshotAttribute", "RegisterImage", "DescribeImages">>

\* Stage k is part of this run.
Required(k) == (Pipeline[k] = "makesnappublic") => publicsnap

\* Calls made without the retry wrapper.
OnceActions ==
  {"ImportVolume", "CreateSnapshot", "DeleteVolume", "RegisterImage", "CopyImage", "Publish"}

\* C1: a home-region provisioning call is sent only when the upload and every
\* stage before its own (ModifySnapshotAttribute counted only with
\* --publicsnap) have returned success, while neither its own stage nor a
\* later one has: the stages run in order, none skipped, none twice.
\* DeleteVolume needs waitforsnapshot done (the snapshot seen 'completed'),
\* RegisterImage needs deletevolume done (DeleteVolume returned true).
C1_StageOrder ==
  [][ \A k \in 1..Len(Pipeline) :
        (req'.action = ActionOf[k] /\ req'.region = HomeRegion)
        => /\ "uploadvolume" \in stagesDone
           /\ \A j \in 1..(k - 1) : Required(j) => Pipeline[j] \in stagesDone
           /\ \A j \in k..Len(Pipeline) : Pipeline[j] \notin stagesDone
           /\ Required(k)
           /\ (ActionOf[k] \in OnceActions => sent[ActionOf[k]] = 0) ]_vars

\* C1 witness: RegisterImage has been sent, after the snapshot was made public.
C1_Witness ==
  /\ req.action = "RegisterImage"
  /\ {"waitforsnapshot", "deletevolume", "makesnappublic"} \subseteq stagesDone
  /\ sent["DeleteVolume"] = 1

\* C2: an attempt made under a retry wrapper is one of at most 10 (its loop
\* index is below 10); if it succeeds the wrapper returns at once; if it
\* fails the wrapper tries again, and gives up only when it was the 10th,
\* whatever made it fail.
C2_BoundedRetry ==
  [][ (req' # NoReq /\ loop'.wrapper \in {"s3_put_loop", "ec2_apicall_loop"})
      => /\ i < 10
         /\ loop'.ok => (loop'.result = "return" /\ i' = 0)
         /\ ~loop'.ok => (loop'.result = IF i + 1 = 10 THEN "giveup" ELSE "again")
         /\ loop'.result = "again" => (i' = i + 1 /\ pc' = pc /\ ~failed')
         /\ loop'.result = "giveup" => failed' ]_vars

\* C2 witness: a wrapped API call has given up, its last attempt spoilt by a
\* NUL byte in the response.
C2_Witness ==
  /\ loop.wrapper = "ec2_apicall_loop" /\ loop.result = "giveup" /\ loop.cause = "nul"
  /\ req.action = "DescribeSnapshots"

\* The first <tag>v</tag> of a body read token by token: v, or "none".
Field(b, tag) ==
  LET k == StrStr(b, <<"<" \o tag \o ">">>)
  IN  IF k = 0 \/ k + 2 > Len(b) THEN "none"
      ELSE IF b[k + 2] # "</" \o tag \o ">" THEN "none"
      ELSE b[k + 1]

\* The <id> inside the <volume> element of a body, or "none".
VolIdOf(b) ==
  LET v == StrStr(b, <<"<volume>">>)
      e == StrStr(b, <<"</volume>">>)
      k == StrStr(b, <<"<id>">>)
  IN  IF v # 0 /\ k > v /\ k + 2 < e /\ b[k + 2] = "</id>" THEN b[k + 1] ELSE "none"

HasActive(b) == StrStr(b, <<"<state>", "active", "</state>">>) # 0

Aborted == failed /\ pc = "exit" /\ exitcode = 1

\* C3: a wrapper that gives up, an error or unexpected status, or a missing
\* expected field aborts the pipeline: the stage fails and the process is at
\* exit(1), where no further request is sent.
C3_AbortOnAnyFailure ==
  /\ loop.result = "giveup" /\ req.action # "Publish" => Aborted
  /\ failed => Aborted
  /\ resp # NULL =>
       /\ req.action = "DescribeConversionTasks"
            => (Field(resp, "state") \notin {"active", "completed"} => Aborted)
       /\ req.action = "DescribeSnapshots"
            => (Field(resp, "status") \notin {"pending", "completed"} => Aborted)
       /\ req.action = "DescribeImages"
            => (Field(resp, "imageState") \notin {"pending", "available"} => Aborted)
       /\ req.action = "ImportVolume" /\ Field(resp, "conversionTaskId") = "none" => Aborted
       /\ req.action = "CreateSnapshot" /\ Field(resp, "snapshotId") = "none" => Aborted
       /\ req.action \in {"RegisterImage", "CopyImage"} /\ Field(resp, "imageId") = "none"
            => Aborted
       /\ req.action \in {"DeleteVolume", "ModifySnapshotAttribute", "ModifyImageAttribute"}
            /\ Field(resp, "return") # "true" => Aborted

\* The stages a run has to complete.
RequiredStages ==
  {"getregionlist", "uploadvolume"}
  \cup {Pipeline[k] : k \in {j \in 1..Len(Pipeline) : Required(j)}}
  \cup (IF public
        THEN {"makepublic@" \o regions[k] : k \in 1..Len(regions)}
             \cup {"copyimage@" \o regions[k] :
                     k \in {j \in 1..Len(regions) : regions[j] # HomeRegion}}
             \cup {"waitforami@" \o regions[k] :
                     k \in {j \in 1..Len(regions) : regions[j] # HomeRegion}}
        ELSE {})

\* C4: the process has exited with 0 exactly when every required stage has
\* succeeded and with 1 exactly when a fatal error was reported; a run that
\* exits with 1 has written nothing to standard output.
C4_ExitStatus ==
  /\ (pc = "exit") = (exitcode \in {0, 1})
  /\ pc = "exit" => /\ (exitcode = 0) = (RequiredStages \subseteq stagesDone)
                    /\ (exitcode = 1) = failed
  /\ failed => exitcode = 1
  /\ exitcode = 1 => out = <<>>
  /\ exitcode = 0 => out # <<>>

\* C4 witness: a run that failed after the image had been registered.
C4_Witness ==
  pc = "exit" /\ exitcode = 1 /\ "registerimage" \in stagesDone /\ out = <<>>

\* ceil(L / P), without the code's rounding trick.
CeilDiv(L, P) == CHOOSE c \in 0..(L \div P + 1) : (c - 1) * P < L /\ L <= c * P

\* C5: the manifest that is PUT declares ceil(L/P) parts and holds that many
\* part blocks, indexed 0..count-1, part k starting at k*P, each starting
\* right after the previous one ends, the last ending at L-1 with length
\* L - (count-1)*P.
C5_ManifestParts ==
  (pc = "uploadmanifest" \/ manifest # NULL) =>
    LET n == Len(parts)
    IN  /\ partcount = CeilDiv(fsize, PARTSZ)
        /\ n = partcount
        /\ \A k \in 1..n :
             /\ parts[k].index = k - 1
             /\ parts[k].start = (k - 1) * PARTSZ
             /\ parts[k].start <= parts[k].end
             /\ k > 1 => parts[k].start = parts[k - 1].end + 1
             /\ k < n => parts[k].end - parts[k].start + 1 = PARTSZ
        /\ n > 0 => /\ parts[1].start = 0
                    /\ parts[n].end = fsize - 1
                    /\ parts[n].end - parts[n].start + 1 = fsize - (n - 1) * PARTSZ
        /\ fsize = 2 * PARTSZ =>
             /\ n = 2
             /\ <<parts[1].start, parts[1].end>> = <<0, PARTSZ - 1>>
             /\ <<parts[2].start, parts[2].end>> = <<PARTSZ, 2 * PARTSZ - 1>>
        /\ fsize = PARTSZ + 1 => n = 2 /\ parts[2].end - parts[2].start + 1 = 1

\* C5 witness: an image of one part and one byte has been uploaded.
C5_Witness ==
  manifest # NULL /\ fsize = PARTSZ + 1 /\ Len(parts) = 2

\* C6: the part that is PUT is the one after the parts already uploaded; a
\* part block is appended only when its PUT succeeded; the manifest is PUT
\* only when every part has been uploaded, and its path is returned only when
\* that PUT succeeded; a PUT that fails 10 times ends the run with no path
\* returned, and a failed run sends nothing more.
C6_UploadOrder ==
  [][ /\ req'.action = "PUT" =>
           IF req'.arg = <<"manifest.xml">>
           THEN Len(parts) = CeilDiv(fsize, PARTSZ) /\ pos = fsize
           ELSE /\ req'.arg = <<"part" \o ToString(Len(parts))>>
                /\ Len(parts) < CeilDiv(fsize, PARTSZ)
      /\ parts' # parts =>
           /\ req'.action = "PUT" /\ loop'.ok
           /\ parts' = Append(parts, parts'[Len(parts')])
           /\ req'.arg = <<parts'[Len(parts')].key>>
      /\ manifest' # manifest =>
           req'.action = "PUT" /\ req'.arg = <<"manifest.xml">> /\ loop'.ok
      /\ (req'.action = "PUT" /\ loop'.result = "giveup") =>
           manifest' = NULL /\ failed' /\ pc' = "exit"
      /\ failed => req' = NoReq ]_vars

\* C6 witness: the PUT of the second part has failed 10 times.
C6_Witness ==
  /\ req.action = "PUT" /\ req.arg = <<"part1">> /\ loop.result = "giveup"
  /\ Len(parts) = 1 /\ manifest = NULL /\ pc = "exit"

\* C7: a polling stage that has ended on a terminal answer after k
\* non-terminal ones has made k+1 successful queries and slept k times; while
\* it polls, every query so far was followed by one sleep.
C7_PollCounts ==
  /\ poll.state \in {"done", "fatal"} =>
       poll.queries = poll.nonterm + 1 /\ poll.sleeps = poll.nonterm
  /\ poll.state = "polling" =>
       poll.queries = poll.nonterm /\ poll.sleeps = poll.queries

\* C7 witness: the home image became available at the third query.
C7_Witness ==
  /\ poll.key = HomeRegion /\ poll.state = "done"
  /\ poll.nonterm = 2 /\ poll.queries = 3 /\ poll.sleeps = 2

C9_ErrorStatusFatal ==
  (req.action = "DescribeConversionTasks" /\ resp # NULL
     /\ Field(resp, "state") = "cancelled" /\ VolIdOf(resp) = "none")
  => Aborted

\* C10: after an accepted DescribeSnapshots / DescribeImages response the
\* stage has ended with success exactly when the status is the success
\* marker, goes on polling (a dot, a sleep) exactly when it is 'pending', and
\* otherwise has failed with the process at exit(1); the dots printed are the
\* pending answers seen.
C10_StatusPolling ==
  (req.action \in {"DescribeSnapshots", "DescribeImages"} /\ resp # NULL) =>
    LET snap == req.action = "DescribeSnapshots"
        st   == Field(resp, IF snap THEN "status" ELSE "imageState")
        good == IF snap THEN "completed" ELSE "available"
    IN  /\ (poll.state = "done") = (st = good)
        /\ (poll.state = "polling") = (st = "pending")
        /\ poll.state = "polling" => ~failed /\ pc # "exit"
        /\ st \notin {good, "pending"} => (poll.state = "fatal" /\ Aborted)
        /\ poll.dots = poll.nonterm /\ poll.sleeps = poll.nonterm
        /\ poll.queries = poll.nonterm + (IF poll.state = "polling" THEN 0 ELSE 1)
        /\ (snap /\ poll.state = "done") => "waitforsnapshot" \in stagesDone

\* C10 witness: pending, pending, completed: two dots, then completion.
C10_Witness ==
  /\ req.action = "DescribeSnapshots" /\ Field(resp, "status") = "completed"
  /\ poll.state = "done" /\ poll.dots = 2 /\ pc = "deletevolume"

\* The regions of the list other than the home region, in list order, and
\* the place of a region in the list.
Replicas == SelectSeq(regions, LAMBDA r : r # HomeRegion)

IsPrefix(s, t) == Len(s) <= Len(t) /\ s = SubSeq(t, 1, Len(s))

RegionIndex(r) == CHOOSE k \in 1..Len(regions) : regions[k] = r

\* The replica regions whose copy has not been seen 'available' yet.
Unawaited == SelectSeq(Replicas, LAMBDA r : ("waitforami@" \o r) \notin stagesDone)

\* C11: with --public, CopyImage goes once to each region of the list other
\* than the home region, in list order, naming the home image as its source,
\* and never to the home region; no copy is awaited (DescribeImages in a
\* replica region) before all CopyImage calls were sent, and the copies are
\* awaited in list order, the next one only when the one before is available.
C11_CopyFanOut ==
  [][ /\ (req'.action = "CopyImage")
          => /\ public /\ "waitforami" \in stagesDone
             /\ req'.region # HomeRegion
             /\ req'.arg = ami /\ ami # NULL
             /\ IsPrefix(copies', Replicas)
             /\ Unawaited = Replicas
             /\ poll.key = HomeRegion
      /\ (req'.action = "DescribeImages" /\ req'.region # HomeRegion)
          => /\ public
             /\ copies = Replicas
             /\ Unawaited # <<>> /\ req'.region = Head(Unawaited)
             /\ req'.arg = amis[RegionIndex(req'.region)]
      /\ (pc' = "exit" /\ exitcode' = 0 /\ public)
          => (copies' = Replicas /\ Unawaited' = <<>>) ]_vars

\* C11 witness: two copies were sent, the first is available and the second
\* is being awaited.
C11_Witness ==
  /\ req.action = "DescribeImages" /\ req.region = "ap-south-1"
  /\ copies = <<"eu-west-1", "ap-south-1">>
  /\ regions = <<"eu-west-1", "us-east-1", "ap-south-1">>
  /\ "waitforami@eu-west-1" \in stagesDone

\* The image produced in region r: the registered image in the home region,
\* the image CopyImage returned in another region.
ProducedIn(r) == IF r = HomeRegion THEN ami ELSE <<"ami-" \o r>>

\* The regions holding an image of this run.
ImageRegions == {HomeRegion} \cup {copies[k] : k \in 1..Len(copies)}

C13_PublicAfterAvailable ==
  [][ /\ \A r \in ImageRegions' :
            LET stage == IF r = HomeRegion THEN "waitforami" ELSE "waitforami@" \o r
            IN  (stage \in stagesDone' /\ stage \notin stagesDone)
                => /\ req' = [action |-> "DescribeImages", region |-> r,
                              arg |-> ProducedIn(r)']
                   /\ Field(resp', "imageState") = "available"
      /\ (req'.action = "ModifyImageAttribute")
          => /\ "waitforami" \in stagesDone
             /\ copies = Replicas
             /\ Unawaited = <<>>
             /\ ("waitforami@" \o req'.region) \in stagesDone
                  \/ req'.region = HomeRegion ]_vars

\* C13 witness: the first ModifyImageAttribute call of a run with two
\* replicas, both seen available.
C13_Witness ==
  /\ req.action = "ModifyImageAttribute" /\ ridx = 1
  /\ Len(copies) = 2
  /\ {"waitforami@" \o copies[1], "waitforami@" \o copies[2]} \subseteq stagesDone

C15_NoFanOutUnlessPublic ==
  [][ ~public
      => /\ req'.action \notin {"CopyImage", "ModifyImageAttribute"}
         /\ (pc # "exit" /\ pc' = "exit" /\ exitcode' = 0)
             => /\ pc = "public?" /\ "waitforami" \in stagesDone
                /\ req.action = "DescribeImages" /\ req.region = HomeRegion
                /\ Field(resp, "imageState") = "available"
                /\ out' = <<[region |-> HomeRegion, id |-> ami]>>
                /\ ami # NULL /\ copies' = <<>> ]_vars

\* C15 witness: a run without --public has ended with its one line.
C15_Witness ==
  /\ ~public /\ pc = "exit" /\ exitcode = 0 /\ Len(out) = 1
  /\ Len(regions) = 3

\* C16: the Publish request is sent with the 'Created AMI' lines already on
\* standard output; whatever comes back (a transport error, a status other
\* than 200, a malformed response, a body without <MessageId>), the process
\* ends with exit status 0 and standard output unchanged, and the failure
\* is reported exactly when the response was not an accepted one holding
\* <MessageId>.
C16_PublishBestEffort ==
  [][ (req'.action = "Publish")
      => /\ pc' = "exit" /\ exitcode' = 0 /\ ~failed'
         /\ out' = out /\ Len(out) = Len(regions) /\ out # <<>>
         /\ \A k \in 1..Len(out) : out[k] = [region |-> regions[k], id |-> amis[k]]
         /\ warned' = ~(loop'.ok /\ StrStr(resp', <<"<MessageId>">>) # 0)
         /\ warned' = ("sns_publish" \notin stagesDone') ]_vars

\* C16 witness: the notification failed on a 200 response without
\* <MessageId>, and the process has exited with status 0.
C16_Witness ==
  /\ req.action = "Publish" /\ loop.ok /\ StrStr(resp, <<"<MessageId>">>) = 0
  /\ warned /\ pc = "exit" /\ exitcode = 0 /\ Len(out) = 3

\* C17: when the topic arguments were given (argc = 10) and the process has
\* exited with status 0, exactly one Publish request has been sent, with or
\* without --public.
C17_PublishWheneverTopic ==
  (pc = "exit" /\ exitcode = 0 /\ argc = 10) => sent["Publish"] = 1

\* The command line or the key file is rejected.
BadStart == (argc # 7 /\ argc # 10) \/ readkeys(keyfile).rc # 0

ImageError ==
  /\ failed /\ req = NoReq
  /\ "getregionlist" \in stagesDone /\ "uploadvolume" \notin stagesDone

\* C19: when an I/O error on the disk image has been detected, no remote
\* call has been issued before it.
C19_ImageErrorBeforeRemote ==
  ImageError => \A a \in Actions : sent[a] = 0

\* A line of the key file without its end-of-line (LF or CR LF), its name
\* (the text before the first '=') and its value (the text after it).
LineText(l) ==
  IF l # <<>> /\ l[Len(l)] = "LF"
  THEN IF Len(l) >= 2 /\ l[Len(l) - 1] = "CR"
       THEN SubSeq(l, 1, Len(l) - 2) ELSE SubSeq(l, 1, Len(l) - 1)
  ELSE l

HasEq(l) == \E k \in 1..Len(LineText(l)) : LineText(l)[k] = "="

FirstEq(l) ==
  CHOOSE k \in 1..Len(LineText(l)) :
    LineText(l)[k] = "=" /\ \A m \in 1..(k - 1) : LineText(l)[m] # "="

LineName(l) == IF HasEq(l) THEN SubSeq(LineText(l), 1, FirstEq(l) - 1) ELSE LineText(l)

LineValue(l) == SubSeq(LineText(l), FirstEq(l) + 1, Len(LineText(l)))

\* The lines of file f that name key.
LinesOf(f, key) == {k \in 1..Len(f) : LineName(f[k]) = <<key>>}

\* C20: when readkeys has succeeded, every line of the key file has an '='
\* and the name ACCESS_KEY_ID or ACCESS_KEY_SECRET, each of the two names is
\* on exactly one line, and the keys returned are the texts after the first
\* '=' of those lines.
C20_ReadKeysStrict ==
  (pc = "getregionlist")
  => /\ \A k \in 1..Len(keyfile) :
           /\ HasEq(keyfile[k])
           /\ LineName(keyfile[k]) \in {<<"ACCESS_KEY_ID">>, <<"ACCESS_KEY_SECRET">>}
     /\ Cardinality(LinesOf(keyfile, "ACCESS_KEY_ID")) = 1
     /\ Cardinality(LinesOf(keyfile, "ACCESS_KEY_SECRET")) = 1
     /\ \A k \in LinesOf(keyfile, "ACCESS_KEY_ID") : key_id = LineValue(keyfile[k])
     /\ \A k \in LinesOf(keyfile, "ACCESS_KEY_SECRET") : key_secret = LineValue(keyfile[k])

\* A line of the key file lacks its end-of-line.
MissingEOL == \E k \in 1..Len(keyfile) : StrCSpnCRLF(keyfile[k]) > Len(keyfile[k])

\* C21: with a key file one of whose lines lacks its end-of-line, readkeys
\* does not succeed: main never gets past the call of readkeys, whichever
\* keys the lines before held.
C21_MissingEOLFatal ==
  MissingEOL => pc \in {"readkeys", "exit"}

\* C22: every request sent (each attempt of a retry wrapper, each poll
\* iteration, each single call) carries a signing result computed for that
\* very send: the send is the first and only use of its timestamp and
\* signature.
C22_FreshSignature ==
  [][ req' # NoReq => sig'.uses = 1 ]_vars

\* C22 witness: the third attempt of a wrapped poll query has been sent.
C22_Witness ==
  /\ req.action = "DescribeSnapshots" /\ i = 3 /\ loop.result = "again"
  /\ poll.nonterm = 1 /\ sig.uses = 1

\* The accepted (well-formed, 200) response to the last request lacks the
\* field its stage expects, or reports an error status.
SemanticFailure ==
  /\ req # NoReq /\ loop.ok /\ resp # NULL
  /\ CASE req.action = "ImportVolume" -> Field(resp, "conversionTaskId") = "none"
       [] req.action = "DescribeConversionTasks" ->
            \/ StrStr(resp, <<"<volume>">>) = 0
            \/ ~HasActive(resp) /\ VolIdOf(resp) = "none"
            \/ HasActive(resp) /\ Field(resp, "statusMessage") = "none"
            \/ Field(resp, "state") = "cancelled"
       [] req.action = "CreateSnapshot" -> Field(resp, "snapshotId") = "none"
       [] req.action = "DescribeSnapshots" ->
            Field(resp, "status") \notin {"pending", "completed"}
       [] req.action \in {"RegisterImage", "CopyImage"} -> Field(resp, "imageId") = "none"
       [] req.action = "DescribeImages" ->
            Field(resp, "imageState") \notin {"pending", "available"}
       [] req.action \in {"DeleteVolume", "ModifySnapshotAttribute", "ModifyImageAttribute"} ->
            Field(resp, "return") # "true"
       [] OTHER -> FALSE

\* C23: a semantic failure is fatal at once: the stage has failed and the
\* process is at exit(1), so the call is not issued again.
C23_SemanticFailureFatal ==
  SemanticFailure => Aborted

\* The calls the claim names as retried: part PUTs, the region listing, the
\* status polls and the permission grants.
RetriedActions ==
  {"PUT", "DescribeRegions", "DescribeConversionTasks", "DescribeSnapshots",
   "DescribeImages", "ModifySnapshotAttribute", "ModifyImageAttribute"}

\* C24: ImportVolume is sent without a retry wrapper and at most once, and
\* an attempt of it that fails (transport error, status other than 200,
\* malformed response) aborts the pipeline; a failed attempt of a part PUT,
\* of the region listing, of a status poll or of a permission grant is
\* tried again until it was the 10th.
C24_ImportSingleAttempt ==
  [][ /\ (req'.action = "ImportVolume")
          => /\ sent["ImportVolume"] = 0 /\ sent'["ImportVolume"] = 1
             /\ loop'.wrapper = "none" /\ i = 0 /\ i' = 0
             /\ ~loop'.ok => (failed' /\ pc' = "exit" /\ exitcode' = 1)
      /\ (req'.action \in RetriedActions)
          => /\ loop'.wrapper \in {"s3_put_loop", "ec2_apicall_loop"}
             /\ (~loop'.ok /\ i < 9) => (~failed' /\ pc' = pc /\ i' = i + 1)
             /\ (~loop'.ok /\ i = 9) => (failed' /\ pc' = "exit" /\ exitcode' = 1) ]_vars

\* C24 witness: the one ImportVolume request got a 403 and the run is over.
C24_Witness ==
  /\ req.action = "ImportVolume" /\ loop.cause = "status" /\ sent["ImportVolume"] = 1
  /\ failed /\ pc = "exit"

\* The fields of an ARN between its colons: the text before the first
\* colon, and the bytes after it.
UptoColon(bytes) ==
  LET colons == {k \in 1..Len(bytes) : bytes[k] = ":"}
  IN  IF colons = {} THEN Len(bytes)
      ELSE (CHOOSE k \in colons : \A m \in colons : k <= m) - 1

AfterColon(bytes) == SubSeq(bytes, UptoColon(bytes) + 2, Len(bytes))

\* <region> of arn:<partition>:sns:<region>:<rest>: the fourth field.
ArnRegionField(arn) ==
  LET f4 == AfterColon(AfterColon(AfterColon(arn)))
  IN  Str(SubSeq(f4, 1, UptoColon(f4)))

\* C25 as stated: whatever the partition of the topic ARN, the Publish
\* request goes to the region named by the fourth field of the ARN.
C25_RegionOfAnyArn ==
  req.action = "Publish" => req.region = ArnRegionField(topicarn)

\* C25 as amended: for a topic ARN that starts with the 12 bytes
\* arn:aws:sns: the Publish request goes to the region named by the
\* fourth field of the ARN.
C25_RegionOfAwsArn ==
  (req.action = "Publish"
     /\ SubSeq(topicarn, 1, 12) = <<"a", "r", "n", ":", "a", "w", "s", ":", "s", "n", "s", ":">>)
  => req.region = ArnRegionField(topicarn)

\* C25 witness: arn:aws:sns:eu-west-1:... was published to eu-west-1.
C25_Witness ==
  /\ req.action = "Publish" /\ req.region = "eu-west-1"
  /\ topicarn = TopicArn

\* The number of '&' among the first n bytes of s.
Amps(s, n) == Cardinality({k \in 1..n : s[k] = "&"})

\* Where byte k of s starts in the escaped string.
AmpPos(s, k) == k + 4 * Amps(s, k - 1)

\* C26: a string returned by encodeamp has the length of its argument plus
\* 4 per '&' of the argument; every byte of the argument other than '&' is
\* there unchanged and in order, every '&' of the argument is there as
\* "&amp;", and every '&' of the result is followed by "amp;".
C26_EncodeAmp ==
  (pc = "encodeamp_done" /\ amp.t # NULL) =>
     /\ Len(amp.t) = Len(amp.s) + 4 * Amps(amp.s, Len(amp.s))
     /\ \A k \in 1..Len(amp.s) :
          IF amp.s[k] = "&"
          THEN SubSeq(amp.t, AmpPos(amp.s, k), AmpPos(amp.s, k) + 4)
                 = <<"&", "a", "m", "p", ";">>
          ELSE amp.t[AmpPos(amp.s, k)] = amp.s[k]
     /\ \A k \in 1..Len(amp.t) :
          amp.t[k] = "&" => SubSeq(amp.t, k + 1, k + 4) = <<"a", "m", "p", ";">>

\* C26 witness: "a&&;" came back as "a&amp;&amp;;".
C26_Witness ==
  /\ pc = "encodeamp_done"
  /\ amp.s = <<"a", "&", "&", ";">>
  /\ amp.t = <<"a", "&", "a", "m", "p", ";", "&", "a", "m", "p", ";", ";">>

\* The first line of a response: the tokens before the first CRLF.
FirstLine(bytes) ==
  IF \E k \in 1..Len(bytes) : bytes[k] = "CRLF"
  THEN SubSeq(bytes, 1, (CHOOSE k \in 1..Len(bytes) :
                           /\ bytes[k] = "CRLF"
                           /\ \A m \in 1..(k - 1) : bytes[m] # "CRLF") - 1)
  ELSE bytes

\* Where the header/body separators of a response start.
Separators(bytes) ==
  {k \in 1..(Len(bytes) - 1) : bytes[k] = "CRLF" /\ bytes[k + 1] = "CRLF"}

\* The transport succeeded, there is no NUL byte, the first line holds the
\* " 200 " token and there is a separator.
GoodResponse(w) ==
  /\ ~w.err
  /\ \A k \in 1..Len(w.bytes) : w.bytes[k] # "NUL"
  /\ \E k \in 1..Len(FirstLine(w.bytes)) : FirstLine(w.bytes)[k] = " 200 "
  /\ Separators(w.bytes) # {}

\* C27: ec2_apicall returns a body exactly when the transport succeeded, the
\* response has no NUL byte, its first line holds " 200 " and it has a
\* separator; the body is then the bytes after the first separator, and in
\* every other case NULL is returned.
C27_ApiCallResult ==
  pc = "ec2_apicall_done" =>
    /\ (resp # NULL) <=> GoodResponse(wire)
    /\ resp # NULL =>
         \E k \in Separators(wire.bytes) :
            /\ \A m \in Separators(wire.bytes) : k <= m
            /\ resp = SubSeq(wire.bytes, k + 2, Len(wire.bytes))

\* C27 witness: the body after the first of two separators was returned.
C27_Witness ==
  /\ pc = "ec2_apicall_done"
  /\ wire = [err |-> FALSE, bytes |-> <<" 200 ", "CRLF", "CRLF", "CRLF", "CRLF">>]
  /\ resp = <<"CRLF", "CRLF">>

\* The position of main while it polls with the given Action.
PollStages(action) ==
  CASE action = "DescribeConversionTasks" -> {"waitforimport"}
    [] action = "DescribeSnapshots" -> {"waitforsnapshot"}
    [] action = "DescribeImages" -> {"waitforami", "waitcopy"}
    [] OTHER -> {}

\* The stage polling with the last request is still polling the same entity.
StillPolling ==
  /\ pc \in PollStages(req.action) /\ ~failed /\ exitcode = -1
  /\ poll.state = "polling" /\ poll.nonterm >= 1

\* The last response accepted reports a non-terminal status.
ReportsPending ==
  /\ resp # NULL
  /\ \/ req.action = "DescribeSnapshots" /\ Field(resp, "status") = "pending"
     \/ req.action = "DescribeImages" /\ Field(resp, "imageState") = "pending"

ReportsActive ==
  /\ resp # NULL
  /\ req.action = "DescribeConversionTasks" /\ HasActive(resp)

ReportsActiveWellFormed ==
  /\ ReportsActive
  /\ StrStr(resp, <<"<volume>">>) # 0 /\ Field(resp, "statusMessage") # "none"

RECURSIVE LastFull(_)
LastFull(writes) ==
  IF writes = <<>> THEN NULL
  ELSE IF writes[Len(writes)] = <<".">> THEN LastFull(SubSeq(writes, 1, Len(writes) - 1))
  ELSE <<writes[Len(writes)][Len(writes[Len(writes)])]>>

\* C29: while waitforimport polls, each non-terminal poll has written once:
\* the first <statusMessage> in full, one equal to the message last written
\* in full as a single ".", a different one as a new line with the message
\* in full; and laststatus is the message last written in full.
C29_StatusReporting ==
  /\ [](pc = "waitforimport" =>
          /\ Len(errout) = poll.nonterm
          /\ laststatus = LastFull(errout))
  /\ [][ (req'.action = "DescribeConversionTasks" /\ poll'.nonterm = poll.nonterm + 1)
          => \E msg \in {Field(resp', "statusMessage")} :
               /\ msg # "none"
               /\ errout' = Append(errout,
                     IF errout = <<>> THEN <<"Importing volume", ": ", msg>>
                     ELSE IF <<msg>> = LastFull(errout) THEN <<".">>
                     ELSE <<"LF", "Importing volume", ": ", msg>>) ]_vars

\* C29 witness: "Pending" in full, then "Downloading" on a new line.
C29_Witness ==
  /\ pc = "waitforimport" /\ laststatus = <<"Downloading">>
  /\ errout = << <<"Importing volume", ": ", "Pending">>,
                 <<"LF", "Importing volume", ": ", "Downloading">> >>

\* C30: when uploadvolume has returned, the file it opened is closed and the
\* buffer it allocated is freed, neither released twice; no string is still
\* held but the path returned on success, none was lost while held and none
\* released without being held.
C30_ReleasesAll ==
  res.ret # "no" =>
    /\ res.f # "held" /\ res.buf # "held"
    /\ res.manifest # "held" /\ res.s # "held" /\ res.query # "held"
    /\ (res.path = "held") <=> (res.ret = "ok")
    /\ res.lost = 0 /\ res.twice = 0

\* The calls that create or destroy a volume, a snapshot or an image in the
\* home region.
CreatingActions == {"ImportVolume", "CreateSnapshot", "DeleteVolume", "RegisterImage"}

C32_BudgetPerCall ==
  [][ /\ (req' # NoReq /\ loop.result # "again") => i = 0
      /\ (req' # NoReq /\ loop.result = "again") => (req'.action = req.action /\ i >= 1)
      /\ (loop'.wrapper # "none" /\ ~loop'.ok)
           => IF i < 9 THEN loop'.result = "again" /\ i' = i + 1 /\ pc' = pc
              ELSE loop'.result = "giveup" /\ i' = 0
      /\ (req' # NoReq /\ loop'.ok) => (loop'.result = "return" /\ i' = 0)
      /\ (req'.action \in {"DescribeConversionTasks", "DescribeSnapshots", "DescribeImages"}
            /\ poll'.nonterm = poll.nonterm + 1) => (i' = 0 /\ pc' = pc) ]_vars

\* C32 witness: a call before this one had failed attempts, a poll of the
\* snapshot has already been answered 'pending', and the next poll has
\* failed 9 times and goes on to its 10th attempt.
C32_Witness ==
  /\ spent /\ req.action = "DescribeSnapshots" /\ poll.nonterm >= 1
  /\ loop.result = "again" /\ i = 9 /\ pc = "waitforsnapshot"
====
